---- MODULE Spec2Model ----
(***************************************************************************)
(* A model of the uno renderer: the sparse/dense handle allocator          *)
(* (handle_alloc_t), the texture state cache (update_state, bind_texture), *)
(* the draw list (draw_list_t), and the three back ends: the immediate     *)
(* (renderer_gl2_t), the batched (renderer_gl3_t) and the per-draw-uniform *)
(* (renderer_gl31_t) renderer, with their texture life cycle, their frames *)
(* (begin_frame, uniform, texture, draw, end_frame), setup and cleanup,    *)
(* and the device calls they issue.                                        *)
(***************************************************************************)
EXTENDS Integers, Sequences, FiniteSets, TLC

(***************************************************************************)
(* Bounds of the model.                                                    *)
(***************************************************************************)
\* Largest pool capacity (the template parameter max_handles_t) explored.
MaxHandles == 4
\* Capacity of the renderer's texture pool in the model (max_texture).
MaxTexture == 1
\* Most submissions (uniform(), texture(), draw()) in one frame.
MaxSubmit == 2
\* Most consecutive applications to one state cache entry that are counted.
MaxApply == 3
\* Most timer queries main()'s loop generates before the window closes.
MaxQuery == 3

(***************************************************************************)
(* Program constants.                                                      *)
(***************************************************************************)
\* static const handle_t invalid_handle_t = UINT8_MAX;
invalid_handle_t == 255
\* typedef uint8_t handle_t: handle arithmetic is modulo 2^8.
handle_modulus == 256

\* The values an uninitialised handle_t cell may hold.  _sparse is never
\* initialised by the constructor nor by reset(), so its initial content is
\* any byte; the model draws each cell from this set (zero, the largest
\* index, the sentinel).
IndeterminateBytes == {0, MaxHandles - 1, invalid_handle_t}

\* Marker for "no argument" / "no return value" in the record of a call.
NoValue == 0 - 1

\* handle_alloc_t<255> of the tests.
test_max_handles == 255

(***************************************************************************)
(* handle_alloc_t<max_handles_t>                                           *)
(***************************************************************************)
\* Constructor: _num_handles(0), _max_handles(max_handles_t), reset().
\* garbage is the indeterminate initial content of _sparse.
handle_alloc_t(max_handles, garbage) ==
    [ num_handles |-> 0,
      max_handles |-> max_handles,
      dense       |-> [i \in 0..(max_handles - 1) |-> i],
      sparse      |-> garbage ]

\* reset() that forgets to rebuild _dense.
handle_alloc_reset_keep_dense(a) ==
    [a EXCEPT !.num_handles = 0]

\* void reset()
handle_alloc_reset(a) ==
    [a EXCEPT !.num_handles = 0,
              !.dense = [i \in 0..(a.max_handles - 1) |-> i]]

\* alloc() that hands out the last handle of _dense again when the pool is
\* exhausted.
handle_alloc_alloc_reuse_last(a) ==
    IF a.num_handles < a.max_handles
    THEN LET index  == a.num_handles
             handle == a.dense[index]
         IN  [ alloc  |-> [a EXCEPT !.num_handles = (index + 1) % handle_modulus,
                                    !.sparse[handle] = index],
               handle |-> handle ]
    ELSE [ alloc |-> a, handle |-> a.dense[a.max_handles - 1] ]

\* alloc() that counts the call before it tests for exhaustion.
handle_alloc_alloc_count_first(a) ==
    IF a.num_handles < a.max_handles
    THEN LET index  == a.num_handles
             handle == a.dense[index]
         IN  [ alloc  |-> [a EXCEPT !.num_handles = (index + 1) % handle_modulus,
                                    !.sparse[handle] = index],
               handle |-> handle ]
    ELSE [ alloc  |-> [a EXCEPT !.num_handles = (a.num_handles + 1) % handle_modulus],
           handle |-> invalid_handle_t ]

\* alloc() that does not store the index of the handle in _sparse.
handle_alloc_alloc_no_index_cache(a) ==
    IF a.num_handles < a.max_handles
    THEN LET index  == a.num_handles
             handle == a.dense[index]
         IN  [ alloc  |-> [a EXCEPT !.num_handles = (index + 1) % handle_modulus],
               handle |-> handle ]
    ELSE [ alloc |-> a, handle |-> invalid_handle_t ]

\* handle_t alloc(): the allocator after the call and the value returned.
handle_alloc_alloc(a) ==
    IF a.num_handles < a.max_handles
    THEN LET index  == a.num_handles
             handle == a.dense[index]
         IN  [ alloc  |-> [a EXCEPT !.num_handles = (index + 1) % handle_modulus,
                                    !.sparse[handle] = index],
               handle |-> handle ]
    ELSE [ alloc |-> a, handle |-> invalid_handle_t ]

\* The body of free() past the sentinel test, with two of its stores made
\* optional: save_removed is  _dense[top_index] = handle,  update_sparse is
\* _sparse[temp] = index.
handle_alloc_remove(a, handle, save_removed, update_sparse) ==
    LET top_index == (a.num_handles - 1) % handle_modulus
        index     == a.sparse[handle]
        temp      == a.dense[top_index]
        dense1    == [a.dense EXCEPT ![index] = temp]
        sparse1   == IF update_sparse THEN [a.sparse EXCEPT ![temp] = index]
                     ELSE a.sparse
        dense2    == IF save_removed THEN [dense1 EXCEPT ![top_index] = handle]
                     ELSE dense1
    IN  [a EXCEPT !.dense = dense2,
                  !.sparse = sparse1,
                  !.num_handles = (a.num_handles - 1) % handle_modulus]

\* free() that does not store the removed handle for reuse.
handle_alloc_free_no_save(a, handle) ==
    IF handle = invalid_handle_t THEN a
    ELSE handle_alloc_remove(a, handle, FALSE, TRUE)

\* free() that does not update the index cache of the moved handle.
handle_alloc_free_stale_sparse(a, handle) ==
    IF handle = invalid_handle_t THEN a
    ELSE handle_alloc_remove(a, handle, TRUE, FALSE)

\* free() that decrements the count before it tests for the sentinel.
handle_alloc_free_late_guard(a, handle) ==
    IF handle = invalid_handle_t
    THEN [a EXCEPT !.num_handles = (a.num_handles - 1) % handle_modulus]
    ELSE handle_alloc_remove(a, handle, TRUE, TRUE)

\* void free(handle_t handle), for the sentinel or a handle the caller holds.
handle_alloc_free(a, handle) ==
    IF handle = invalid_handle_t
    THEN a
    ELSE LET top_index == (a.num_handles - 1) % handle_modulus
             index     == a.sparse[handle]
             temp      == a.dense[top_index]
             dense1    == [a.dense EXCEPT ![index] = temp]
             sparse1   == [a.sparse EXCEPT ![temp] = index]
             dense2    == [dense1 EXCEPT ![top_index] = handle]
         IN  [a EXCEPT !.dense = dense2,
                       !.sparse = sparse1,
                       !.num_handles = (a.num_handles - 1) % handle_modulus]

\* What alloc() does to its arrays when the pool is not exhausted: the
\* subscript of its read of _dense and of its store to _sparse.
handle_alloc_alloc_accesses(a) ==
    LET index == a.num_handles
    IN  IF index \in DOMAIN a.dense
        THEN [dense |-> {index}, sparse |-> {a.dense[index]}]
        ELSE [dense |-> {index}, sparse |-> {}]

\* What free() does past the sentinel test: the value its assertion tests,
\* whether  _num_handles - 1  and  _num_handles--  wrap around, and the
\* subscripts of its reads and stores of _dense and _sparse (temp is read
\* from _dense only where top_index lies inside it).
handle_alloc_free_accesses(a, handle) ==
    LET top_index == (a.num_handles - 1) % handle_modulus
        index     == IF handle \in DOMAIN a.sparse THEN a.sparse[handle]
                     ELSE invalid_handle_t
    IN  [ assertion |-> index # invalid_handle_t,
          wraps     |-> a.num_handles - 1 < 0,
          dense     |-> {top_index, index},
          sparse    |-> {handle}
                          \cup IF top_index \in DOMAIN a.dense
                               THEN {a.dense[top_index]} ELSE {} ]

(***************************************************************************)
(* The device: the texture names in use, the active texture unit, the      *)
(* texture bound to each unit and target, the contents of the vertex,      *)
(* index and uniform buffers, the source of the vertex attributes, the     *)
(* range of the uniform buffer bound to the shader's block, the value of   *)
(* the shader's plain uniform, and the calls issued during the last        *)
(* renderer call.  A vertex is a number other than 0 and a uniform_t is a  *)
(* number; what a draw reads outside a buffer is NoValue.                  *)
(***************************************************************************)
\* sizeof(uniform_block_t): the union with uint8_t _[256].
block_size == 256

\* sizeof(uniform_t): glm::vec4 data[4].
uniform_size == 64

\* The largest GL_UNIFORM_BUFFER_OFFSET_ALIGNMENT a device may report.
max_alignment == 256

\* The texture units of texture_state_t:  unit[8].
Units == 0..7

\* The slots per unit of texture_state_t:  target[5].
TargetIndices == 0..4

\* The targets get_index_for_texture_target names, and one it does not.
CachedTargets ==
    { "GL_TEXTURE_2D", "GL_TEXTURE_2D_ARRAY", "GL_TEXTURE_CUBE_MAP",
      "GL_TEXTURE_2D_MULTISAMPLE", "GL_TEXTURE_EXTERNAL_OES" }

Targets == CachedTargets \cup {"GL_TEXTURE_3D"}

\* The vertex attributes read from offset 0 of the buffer bound to
\* GL_ARRAY_BUFFER, or from an array of the caller.
buffer_offset == [client |-> FALSE, array |-> <<>>]

client_array(vertex) == [client |-> TRUE, array |-> vertex]

\* No range of the uniform buffer is bound to the shader's block.
no_range == [offset |-> NoValue, size |-> NoValue]

\* The device when the context is created: no texture name in use, unit 0
\* active, the name 0 bound everywhere.
device ==
    [ textures       |-> {},
      log            |-> <<>>,
      active         |-> 0,
      binding        |-> [u \in Units |-> [t \in Targets |-> 0]],
      alignment      |-> max_alignment,
      array_buffer   |-> <<>>,
      element_buffer |-> <<>>,
      uniform_buffer |-> [size |-> 0, stride |-> block_size, data |-> <<>>],
      pointer        |-> buffer_offset,
      range          |-> no_range,
      uniform        |-> 0 ]

\* The texture names the device hands out: one more than the pool has
\* slots, so that a name can be in use outside the slots.
Instances == 1..(MaxTexture + 1)

\* The values of the global num_frac.
Fracs == 1..MaxSubmit

\* glGenTextures(1, &instance) with the unused name the device picks.
glGenTextures(g, instance) ==
    [g EXCEPT !.textures = @ \cup {instance}]

\* glDeleteTextures(1, &texture): the name 0 is silently ignored; a deleted
\* texture that is bound is replaced by the name 0 in its binding.
glDeleteTextures(g, texture) ==
    [g EXCEPT !.textures = @ \ {texture},
              !.binding = [u \in Units |-> [t \in Targets |->
                              IF texture # 0 /\ @[u][t] = texture
                              THEN 0 ELSE @[u][t]]],
              !.log = Append(@, [gl |-> "glDeleteTextures", texture |-> texture])]

\* glActiveTexture(GL_TEXTURE0 + unit)
glActiveTexture(g, unit) ==
    [g EXCEPT !.active = unit,
              !.log = Append(@, [gl |-> "glActiveTexture", unit |-> unit])]

\* glBindTexture(target, texture): binds on the active unit.
glBindTexture(g, target, texture) ==
    [g EXCEPT !.binding[g.active][target] = texture,
              !.log = Append(@, [gl |-> "glBindTexture", target |-> target,
                                 texture |-> texture])]

\* glBufferData(target, size, data, usage): replaces the store of the
\* buffer bound to target.
glBufferData(g, target, data) ==
    [g EXCEPT !.array_buffer =
                  IF target = "GL_ARRAY_BUFFER" THEN data ELSE @,
              !.element_buffer =
                  IF target = "GL_ELEMENT_ARRAY_BUFFER" THEN data ELSE @,
              !.uniform_buffer =
                  IF target = "GL_UNIFORM_BUFFER" THEN data ELSE @,
              !.log = Append(@, [gl |-> "glBufferData", target |-> target])]

\* glVertexAttribPointer(...) for both attributes.
glVertexAttribPointer(g, pointer) == [g EXCEPT !.pointer = pointer]

\* The four glUniform4fv(uniform_location[i], 1, &uniform.data[i]).
glUniform4fv(g, uniform) ==
    [g EXCEPT !.uniform = uniform,
              !.log = Append(@, [gl |-> "glUniform4fv", uniform |-> uniform])]

\* glBindBufferRange(GL_UNIFORM_BUFFER, slot, id, offset, size): the device
\* rejects (GL_INVALID_VALUE) a size that is not positive and an offset
\* that is not a multiple of its GL_UNIFORM_BUFFER_OFFSET_ALIGNMENT, and
\* then leaves the binding as it was.
glBindBufferRange(g, offset, size) ==
    LET ok == size > 0 /\ offset >= 0 /\ offset % g.alignment = 0
    IN  [g EXCEPT !.range = IF ok THEN [offset |-> offset, size |-> size]
                            ELSE @,
                  !.log = Append(@, [gl |-> "glBindBufferRange",
                                     offset |-> offset, size |-> size,
                                     error |-> ~ok])]

\* glBindBufferBase(GL_UNIFORM_BUFFER, slot, id): the whole buffer.
glBindBufferBase(g) ==
    [g EXCEPT !.range = [offset |-> 0, size |-> g.uniform_buffer.size],
              !.log = Append(@, [gl |-> "glBindBufferBase"])]

\* The i-th cell of a store (from 1), NoValue outside it.
Fetch(store, i) == IF i \in DOMAIN store THEN store[i] ELSE NoValue

\* The uniform_t a draw's shader reads: the plain uniform when no range of
\* the uniform buffer is bound, else the start of the bound range.
FetchUniform(g) ==
    IF g.range = no_range THEN g.uniform
    ELSE IF g.range.offset % g.uniform_buffer.stride = 0
         THEN Fetch(g.uniform_buffer.data,
                    g.range.offset \div g.uniform_buffer.stride + 1)
         ELSE NoValue

\* The vertex attributes of vertex number i (from 0).
FetchVertex(g, i) ==
    IF i = NoValue THEN NoValue
    ELSE Fetch(IF g.pointer.client THEN g.pointer.array ELSE g.array_buffer,
               i + 1)

\* glDrawElements(GL_TRIANGLES, count, GL_UNSIGNED_INT, offset * 4): draws
\* the vertices the count indices from offset select, with the uniform the
\* shader reads and the texture the sampler's unit 0 has bound to
\* GL_TEXTURE_2D.
glDrawElements(g, count, offset) ==
    [g EXCEPT !.log = Append(@,
        [gl       |-> "glDrawElements",
         texture  |-> g.binding[0]["GL_TEXTURE_2D"],
         uniform  |-> FetchUniform(g),
         vertices |-> [k \in 1..count |->
                          FetchVertex(g, Fetch(g.element_buffer, offset + k))]])]

(***************************************************************************)
(* draw_list_t.  A vertex is a number other than 0, the value-initialised  *)
(* vertex_t of resize() is 0; vertex_pointer and index_pointer are kept as *)
(* offsets into the vectors.  An index_t is a uint32_t; the indices and    *)
(* lengths of the model stay far below its range, so no sum wraps.         *)
(***************************************************************************)
\* draw_list_t::draw_list_t(): the three vectors are empty, the pointers
\* null.
draw_list_t ==
    [ vertices       |-> <<>>,
      indices        |-> <<>>,
      commands       |-> <<>>,
      vertex_pointer |-> NoValue,
      index_pointer  |-> NoValue ]

\* void draw_list_t::reserve(vertex_count, index_count)
draw_list_reserve(dl, vertex_count, index_count) ==
    [dl EXCEPT !.vertices = @ \o [i \in 1..vertex_count |-> 0],
               !.vertex_pointer = Len(dl.vertices),
               !.indices = @ \o [i \in 1..index_count |-> 0],
               !.index_pointer = Len(dl.indices)]

\* draw() that copies the indices as they are.
draw_list_draw_no_rebase(dl, vertex, index) ==
    [dl EXCEPT !.vertices = @ \o vertex,
               !.vertex_pointer = Len(dl.vertices),
               !.indices = @ \o index,
               !.index_pointer = Len(dl.indices),
               !.commands = Append(@, [count  |-> Len(index),
                                       offset |-> Len(dl.indices)])]

\* draw() whose command starts at the vertex offset.
draw_list_draw_vertex_offset(dl, vertex, index) ==
    [dl EXCEPT !.vertices = @ \o vertex,
               !.vertex_pointer = Len(dl.vertices),
               !.indices = @ \o [i \in 1..Len(index) |->
                                    index[i] + Len(dl.vertices)],
               !.index_pointer = Len(dl.indices),
               !.commands = Append(@, [count  |-> Len(index),
                                       offset |-> Len(dl.vertices)])]

\* draw() that rebases the indices by the length of the index sequence.
draw_list_draw_rebase_by_indices(dl, vertex, index) ==
    [dl EXCEPT !.vertices = @ \o vertex,
               !.vertex_pointer = Len(dl.vertices),
               !.indices = @ \o [i \in 1..Len(index) |->
                                    index[i] + Len(dl.indices)],
               !.index_pointer = Len(dl.indices),
               !.commands = Append(@, [count  |-> Len(index),
                                       offset |-> Len(dl.indices)])]

\* void draw_list_t::draw(vertex, vertex_count, index, index_count), with
\* the two arrays given by their first vertex_count and index_count cells.
draw_list_draw(dl, vertex, index) ==
    LET index_offset  == Len(dl.indices)
        vertex_offset == Len(dl.vertices)
        r == draw_list_reserve(dl, Len(vertex), Len(index))
    IN  [r EXCEPT
           !.vertices = [i \in DOMAIN r.vertices |->
                           IF i > r.vertex_pointer
                           THEN vertex[i - r.vertex_pointer]
                           ELSE r.vertices[i]],
           !.indices = [i \in DOMAIN r.indices |->
                           IF i > r.index_pointer
                           THEN index[i - r.index_pointer] + vertex_offset
                           ELSE r.indices[i]],
           !.commands = Append(@, [count  |-> Len(index),
                                   offset |-> index_offset])]

\* renderer_gl3_t::begin_frame(): the draw list is emptied.
draw_list_clear(dl) == draw_list_t

(***************************************************************************)
(* renderer_opengl_t / renderer_gl3_t: the texture registry, the deferred  *)
(* destruction queue and the per-frame sequences.  uniform_buffer and      *)
(* draw_commands are written and read by end_frame() only and are kept as  *)
(* its locals.  stray holds the names stored past the end of textures[]    *)
(* (the slot of the sentinel handle lies outside the array and outside the *)
(* renderer object).                                                       *)
(***************************************************************************)
\* texture_state_t: the cached active unit and, per unit and slot, the
\* cached texture name; all zero by the default member initialisers.
texture_state_t ==
    [ activate |-> 0,
      unit     |-> [u \in Units |-> [t \in TargetIndices |-> 0]] ]

\* The base renderer after construction (value-initialised: every cell
\* zero) and setup(), which clears textures[]; so is renderer_gl2_t, which
\* adds no state of its own to the textures.
renderer_opengl_t ==
    [ handle_alloc  |-> handle_alloc_t(MaxTexture, [i \in 0..(MaxTexture - 1) |-> 0]),
      textures      |-> [i \in 0..(MaxTexture - 1) |-> 0],
      texture_state |-> texture_state_t,
      stray         |-> {} ]

\* The batched renderer after construction and setup().
renderer_gl3_t ==
    [ handle_alloc  |-> handle_alloc_t(MaxTexture, [i \in 0..(MaxTexture - 1) |-> 0]),
      textures      |-> [i \in 0..(MaxTexture - 1) |-> 0],
      texture_state |-> texture_state_t,
      free_textures |-> <<>>,
      bind_textures |-> <<>>,
      draw_list     |-> draw_list_t,
      uniforms      |-> <<>>,
      stray         |-> {} ]

Result(r, g, ret) == [render |-> r, gl |-> g, ret |-> ret]

\* constexpr size_t get_index_for_texture_target(GLuint target)
get_index_for_texture_target(target) ==
    CASE target = "GL_TEXTURE_2D"             -> 0
      [] target = "GL_TEXTURE_2D_ARRAY"       -> 1
      [] target = "GL_TEXTURE_CUBE_MAP"       -> 2
      [] target = "GL_TEXTURE_2D_MULTISAMPLE" -> 3
      [] target = "GL_TEXTURE_EXTERNAL_OES"   -> 4
      [] OTHER                                -> 0

\* update_state that invokes its functor only on a change, whatever force.
update_state_ignore_force(state, expected, force) ==
    [ state  |-> expected,
      invoke |-> state # expected ]

\* update_state that invokes its functor on every call.
update_state_always(state, expected, force) ==
    [ state  |-> expected,
      invoke |-> TRUE ]

\* void update_state(T& state, const T& expected, F functor, bool force):
\* the value of state after the call and whether functor() is invoked.
update_state(state, expected, force) ==
    IF force \/ state # expected
    THEN [ state |-> expected, invoke |-> TRUE ]
    ELSE [ state |-> state,    invoke |-> FALSE ]

\* update_state(texture_state.activate, unit,
\*              [&]() { glActiveTexture(GL_TEXTURE0 + unit); }, force)
update_activate(r, g, unit, force) ==
    LET u == update_state(r.texture_state.activate, unit, force)
    IN  Result([r EXCEPT !.texture_state.activate = u.state],
               IF u.invoke THEN glActiveTexture(g, unit) ELSE g,
               NoValue)

\* void renderer_opengl_t::activate_texture(GLuint unit)
activate_texture(r, g, unit) == update_activate(r, g, unit, FALSE)

\* void renderer_opengl_t::bind_texture(unit, target, instance)
bind_texture(r, g, unit, target, instance) ==
    LET target_index == get_index_for_texture_target(target)
        u == update_state(r.texture_state.unit[unit][target_index],
                          instance, FALSE)
        r1 == [r EXCEPT !.texture_state.unit[unit][target_index] = u.state]
    IN  IF u.invoke
        THEN LET a == activate_texture(r1, g, unit)
             IN  Result(a.render, glBindTexture(a.gl, target, instance),
                        NoValue)
        ELSE Result(r1, g, NoValue)

\* GLuint create_texture_impl(width, height, data)
create_texture_impl(g, instance) ==
    glBindTexture(glBindTexture(glGenTextures(g, instance),
                                "GL_TEXTURE_2D", instance),
                  "GL_TEXTURE_2D", 0)

\* textures[index] = instance
store_texture(r, index, instance) ==
    IF index \in DOMAIN r.textures
    THEN [r EXCEPT !.textures[index] = instance]
    ELSE [r EXCEPT !.stray = @ \cup {instance}]

\* texture_handle_t renderer_opengl_t::create_texture(desc)
create_texture(r, g, instance) ==
    LET a      == handle_alloc_alloc(r.handle_alloc)
        handle == a.handle
        r1     == [r EXCEPT !.handle_alloc = a.alloc]
    IN  Result(store_texture(r1, handle, instance),
               create_texture_impl(g, instance), handle)

\* destroy_texture that queues nothing and leaves the texture in place.
destroy_texture_free_only(r, g, handle) ==
    IF handle = invalid_handle_t
    THEN Result(r, g, NoValue)
    ELSE Result([r EXCEPT !.handle_alloc = handle_alloc_free(@, handle)],
                g, NoValue)

\* destroy_texture that leaves the deleted name in the slot.
destroy_texture_keep_slot(r, g, handle) ==
    IF handle = invalid_handle_t
    THEN Result(r, g, NoValue)
    ELSE Result([r EXCEPT !.handle_alloc = handle_alloc_free(@, handle)],
                glDeleteTextures(g, r.textures[handle]), NoValue)

\* void renderer_opengl_t::destroy_texture(handle)
destroy_texture(r, g, handle) ==
    IF handle = invalid_handle_t
    THEN Result(r, g, NoValue)
    ELSE Result([r EXCEPT !.textures[handle] = 0,
                          !.handle_alloc = handle_alloc_free(@, handle)],
                glDeleteTextures(g, r.textures[handle]), NoValue)

\* void renderer_gl2_t::begin_frame(): clears the frame buffer and enables
\* the program and the vertex attributes; no texture state is touched.
gl2_begin_frame(r, g) == Result(r, g, NoValue)

\* void renderer_gl2_t::uniform(uniform): four glUniform4fv.
gl2_uniform(r, g, uniform) == Result(r, glUniform4fv(g, uniform), NoValue)

\* texture() that binds without asking the cache.
gl2_texture_uncached(r, g, handle) ==
    Result(r, glBindTexture(glActiveTexture(g, 0), "GL_TEXTURE_2D",
                            r.textures[handle]), NoValue)

\* void renderer_gl2_t::texture(texture)
gl2_texture(r, g, handle) ==
    bind_texture(r, g, 0, "GL_TEXTURE_2D", r.textures[handle])

\* glDrawArrays(GL_TRIANGLES, 0, vertex_count): draws the first
\* vertex_count vertices in order, with the uniform the shader reads and
\* the texture the sampler's unit 0 has bound to GL_TEXTURE_2D.
glDrawArrays(g, vertex_count) ==
    [g EXCEPT !.log = Append(@,
        [gl       |-> "glDrawArrays",
         texture  |-> g.binding[0]["GL_TEXTURE_2D"],
         uniform  |-> FetchUniform(g),
         vertices |-> [k \in 1..vertex_count |-> FetchVertex(g, k - 1)]])]

\* void renderer_gl2_t::draw(vertices, vertex_count, indices, index_count):
\* the attributes point at the caller's array; the indices are not read.
gl2_draw(r, g, vertex, index) ==
    Result(r, glDrawArrays(glVertexAttribPointer(g, client_array(vertex)),
                        Len(vertex)),
           NoValue)

\* void renderer_gl2_t::end_frame(): disables the vertex attributes.
gl2_end_frame(r, g) == Result(r, g, NoValue)

\* void renderer_gl31_t::begin_frame(): the attributes are read from
\* offset 0 of the vertex buffer.
gl31_begin_frame(r, g) ==
    Result(r, glVertexAttribPointer(g, buffer_offset), NoValue)

\* void renderer_gl31_t::draw(vertices, vertex_count, indices, index_count):
\* uploads the vertices and draws them in order; the indices are not read.
gl31_draw(r, g, vertex, index) ==
    Result(r, glDrawArrays(glBufferData(g, "GL_ARRAY_BUFFER", vertex),
                           Len(vertex)), NoValue)

\* void renderer_gl31_t::uniform(uniform)
gl31_uniform(r, g, uniform) ==
    Result(r, glBindBufferBase(
                  glBufferData(g, "GL_UNIFORM_BUFFER",
                               [size   |-> uniform_size,
                                stride |-> uniform_size,
                                data   |-> <<uniform>>])), NoValue)

\* void renderer_gl31_t::texture(texture)
gl31_texture(r, g, handle) ==
    Result(r, glBindTexture(glActiveTexture(g, 0), "GL_TEXTURE_2D",
                            r.textures[handle]), NoValue)

\* void renderer_gl31_t::end_frame(): disables the vertex attributes.
gl31_end_frame(r, g) == Result(r, g, NoValue)

\* texture_handle_t renderer_gl3_t::create_texture(desc)
gl3_create_texture(r, g, instance) ==
    LET a      == handle_alloc_alloc(r.handle_alloc)
        handle == a.handle
        r1     == [r EXCEPT !.handle_alloc = a.alloc]
    IN  Result(store_texture(r1, handle, instance),
               create_texture_impl(g, instance), handle)

\* The immediate policy of renderer_opengl_t::destroy_texture used in the
\* batched back end: delete, zero the slot and free at once.
gl3_destroy_texture_immediate(r, g, handle) ==
    IF handle = invalid_handle_t
    THEN Result(r, g, NoValue)
    ELSE Result([r EXCEPT !.textures[handle] = 0,
                          !.handle_alloc = handle_alloc_free(@, handle)],
                glDeleteTextures(g, r.textures[handle]), NoValue)

\* destroy_texture that queues the invalid handle like any other.
gl3_destroy_texture_no_guard(r, g, handle) ==
    Result([r EXCEPT !.free_textures = Append(@, handle)], g, NoValue)

\* void renderer_gl3_t::destroy_texture(handle)
gl3_destroy_texture(r, g, handle) ==
    IF handle = invalid_handle_t
    THEN Result(r, g, NoValue)
    ELSE Result([r EXCEPT !.free_textures = Append(@, handle)], g, NoValue)

\* void renderer_gl3_t::begin_frame()
gl3_begin_frame(r, g) ==
    Result([r EXCEPT !.draw_list = draw_list_clear(@),
                     !.uniforms = <<>>,
                     !.bind_textures = <<>>],
           g, NoValue)

\* void renderer_gl3_t::draw(vertices, vertex_count, indices, index_count)
gl3_draw(r, g, vertex, index) ==
    Result([r EXCEPT !.draw_list = draw_list_draw(@, vertex, index)],
           g, NoValue)

\* uniform() that puts the uniform in front of the sequence.
gl3_uniform_push_front(r, g, uniform) ==
    Result([r EXCEPT !.uniforms = <<uniform>> \o @], g, NoValue)

\* void renderer_gl3_t::uniform(uniform)
gl3_uniform(r, g, uniform) ==
    Result([r EXCEPT !.uniforms = Append(@, uniform)], g, NoValue)

\* texture() that also binds at once.
gl3_texture_bind_now(r, g, handle) ==
    Result([r EXCEPT !.bind_textures = Append(@, handle)],
           glBindTexture(glActiveTexture(g, 0), "GL_TEXTURE_2D",
                         r.textures[handle]), NoValue)

\* void renderer_gl3_t::texture(texture)
gl3_texture(r, g, handle) ==
    Result([r EXCEPT !.bind_textures = Append(@, handle)], g, NoValue)

\* What end_frame() reads for draw i past the end of draw_list.commands,
\* of uniform_offsets and of bind_textures when all three cells hold the
\* word w: the mesh, the uniform range, and the texture the handle read
\* resolves to.
indeterminate(w) ==
    [ texture |-> w,
      mesh    |-> [count |-> w, offset |-> w],
      uniform |-> [offset |-> w, size |-> w],
      stale   |-> FALSE ]

\* The texture end_frame() resolves for draw i (from 1): textures[
\* bind_textures[i].index], or what lies past the end of bind_textures.
resolve_texture(r, i, garbage) ==
    IF i <= Len(r.bind_textures) THEN r.textures[r.bind_textures[i]]
    ELSE garbage[i].texture

\* The mesh end_frame() resolves for draw i: draw_list.commands[i], or
\* what lies past the end of the commands.
resolve_mesh(r, i, garbage) ==
    IF i <= Len(r.draw_list.commands) THEN r.draw_list.commands[i]
    ELSE garbage[i].mesh

\* uniform_offsets[i] that packs the blocks without padding.
resolve_uniform_packed(r, i, garbage) ==
    IF i <= Len(r.uniforms)
    THEN [offset |-> (i - 1) * uniform_size, size |-> uniform_size]
    ELSE garbage[i].uniform

\* uniform_offsets[i] for draw i: { i * block_size, block_size } with i
\* from 0, or what lies past the end of uniform_offsets.
resolve_uniform(r, i, garbage) ==
    IF i <= Len(r.uniforms)
    THEN [offset |-> (i - 1) * block_size, size |-> block_size]
    ELSE garbage[i].uniform

\* end_frame() that uploads no uniforms.
upload_buffers_no_uniform(r, g) ==
    glBufferData(glBufferData(g, "GL_ARRAY_BUFFER", r.draw_list.vertices),
                 "GL_ELEMENT_ARRAY_BUFFER", r.draw_list.indices)

\* The three uploads of end_frame(): the vertices, the indices, and the
\* uniforms copied one per block of block_size bytes.
upload_buffers(r, g) ==
    LET g1 == glBufferData(g, "GL_ARRAY_BUFFER", r.draw_list.vertices)
        g2 == glBufferData(g1, "GL_ELEMENT_ARRAY_BUFFER", r.draw_list.indices)
    IN  glBufferData(g2, "GL_UNIFORM_BUFFER",
                     [size   |-> block_size * Len(r.uniforms),
                      stride |-> block_size,
                      data   |-> r.uniforms])

\* The loops  for (i < num_frac) { draw_commands[i] = ... }  and
\* for (i < num_frac) { glBindBufferRange(...); glActiveTexture(GL_TEXTURE0);
\* glBindTexture(GL_TEXTURE_2D, call.texture); glDrawElements(...); }
\* Nothing the first loop reads changes before the second one uses it.
RECURSIVE draw_loop(_, _, _, _, _)
draw_loop(r, g, i, frac, garbage) ==
    IF i > frac THEN g
    ELSE LET mesh == resolve_mesh(r, i, garbage)
             ubo  == resolve_uniform(r, i, garbage)
             g1   == glBindBufferRange(g, ubo.offset, ubo.size)
             g2   == glBindTexture(glActiveTexture(g1, 0), "GL_TEXTURE_2D",
                                   resolve_texture(r, i, garbage))
         IN  draw_loop(r, glDrawElements(g2, mesh.count, mesh.offset),
                       i + 1, frac, garbage)

\* The loop  for (auto handle : free_textures) { glDeleteTextures;
\* texture = 0; handle_alloc.free(handle.index); }
RECURSIVE free_loop(_, _, _)
free_loop(r, g, queue) ==
    IF queue = <<>> THEN Result(r, g, NoValue)
    ELSE LET handle == Head(queue)
         IN  free_loop([r EXCEPT !.textures[handle] = 0,
                                 !.handle_alloc = handle_alloc_free(@, handle)],
                       glDeleteTextures(g, r.textures[handle]),
                       Tail(queue))

\* end_frame() that releases the queued textures before it draws.
gl3_end_frame_release_first(r, g, frac, garbage) ==
    LET freed_ == free_loop(r, upload_buffers(r, g), r.free_textures)
    IN  Result([freed_.render EXCEPT !.free_textures = <<>>],
               draw_loop(freed_.render,
                         glVertexAttribPointer(freed_.gl, buffer_offset),
                         1, frac, garbage), NoValue)

\* void renderer_gl3_t::end_frame(): the uploads, the draws, then the
\* deferred releases, then free_textures.clear().  frac is num_frac.
gl3_end_frame(r, g, frac, garbage) ==
    LET drawn  == draw_loop(r, glVertexAttribPointer(upload_buffers(r, g),
                                                     buffer_offset),
                            1, frac, garbage)
        freed_ == free_loop(r, drawn, r.free_textures)
    IN  Result([freed_.render EXCEPT !.free_textures = <<>>], freed_.gl, NoValue)

\* GLuint renderer_opengl_t::create_shader(type, shaderCode): the name
\* glCreateShader returns (0 when it fails) if GL_COMPILE_STATUS is set,
\* else 0.
create_shader(shader) ==
    IF shader.id = 0 THEN 0
    ELSE IF ~shader.compiled THEN 0
    ELSE shader.id

\* create_program() that returns the program whatever its link status.
create_program_unchecked(vertex, fragment, linking) == linking.id

\* GLuint renderer_opengl_t::create_program(vertex, fragment): status stays
\* GL_FALSE when vertex is 0 and when the link fails; the program name is
\* returned only with the status set.
create_program(vertex, fragment, linking) ==
    LET status == vertex # 0 /\ linking.id # 0 /\ linking.linked
    IN  IF status THEN linking.id ELSE 0

\* bool renderer_gl2_t::setup() and bool renderer_gl3_t::setup(), which
\* renderer_gl31_t inherits: outcome is what the device answers to the
\* two compilations and the link.  renderer_opengl_t::setup() zeroes
\* textures[].
setup(r, g, outcome) ==
    LET r1 == [r EXCEPT !.textures = [i \in DOMAIN @ |-> 0]]
        vertex_shader   == create_shader(outcome.vertex)
        fragment_shader == create_shader(outcome.fragment)
        program == create_program(vertex_shader, fragment_shader,
                                  outcome.program)
    IN  IF vertex_shader = 0 THEN Result(r1, g, FALSE)
        ELSE IF fragment_shader = 0 THEN Result(r1, g, FALSE)
        ELSE IF program = 0 THEN Result(r1, g, FALSE)
        ELSE Result(r1, g, TRUE)

\* void renderer_gl2_t::cleanup(): renderer_opengl_t::cleanup() is empty;
\* the program and the two shaders are deleted.
gl2_cleanup(r, g) == Result(r, g, NoValue)

\* The loop of cleanup()  for (auto handle : free_textures)
\* { glDeleteTextures; texture = 0; }  which does not free the handle.
RECURSIVE cleanup_loop(_, _, _)
cleanup_loop(r, g, queue) ==
    IF queue = <<>> THEN Result(r, g, NoValue)
    ELSE LET handle == Head(queue)
         IN  cleanup_loop([r EXCEPT !.textures[handle] = 0],
                          glDeleteTextures(g, r.textures[handle]),
                          Tail(queue))

\* void renderer_gl3_t::cleanup(), which renderer_gl31_t inherits: the
\* queued textures, then the program, the shaders, the vertex array and
\* the three buffers are deleted.
gl3_cleanup(r, g) ==
    LET freed_ == cleanup_loop(r, g, r.free_textures)
    IN  Result([freed_.render EXCEPT !.free_textures = <<>>],
               [freed_.gl EXCEPT
                   !.array_buffer = <<>>,
                   !.element_buffer = <<>>,
                   !.uniform_buffer = device.uniform_buffer,
                   !.range = no_range],
               NoValue)

\* The virtual calls of renderer_opengl_t, by the class main() constructs.
render_begin_frame(b, r, g) ==
    CASE b = "gl2"  -> gl2_begin_frame(r, g)
      [] b = "gl3"  -> gl3_begin_frame(r, g)
      [] b = "gl31" -> gl31_begin_frame(r, g)

render_uniform(b, r, g, uniform) ==
    CASE b = "gl2"  -> gl2_uniform(r, g, uniform)
      [] b = "gl3"  -> gl3_uniform(r, g, uniform)
      [] b = "gl31" -> gl31_uniform(r, g, uniform)

render_texture(b, r, g, handle) ==
    CASE b = "gl2"  -> gl2_texture(r, g, handle)
      [] b = "gl3"  -> gl3_texture(r, g, handle)
      [] b = "gl31" -> gl31_texture(r, g, handle)

render_draw(b, r, g, vertex, index) ==
    CASE b = "gl2"  -> gl2_draw(r, g, vertex, index)
      [] b = "gl3"  -> gl3_draw(r, g, vertex, index)
      [] b = "gl31" -> gl31_draw(r, g, vertex, index)

render_end_frame(b, r, g, frac, garbage) ==
    CASE b = "gl2"  -> gl2_end_frame(r, g)
      [] b = "gl3"  -> gl3_end_frame(r, g, frac, garbage)
      [] b = "gl31" -> gl31_end_frame(r, g)

render_create_texture(b, r, g, instance) ==
    IF b = "gl2" THEN create_texture(r, g, instance)
    ELSE gl3_create_texture(r, g, instance)

render_destroy_texture(b, r, g, handle) ==
    IF b = "gl2" THEN destroy_texture(r, g, handle)
    ELSE gl3_destroy_texture(r, g, handle)

render_cleanup(b, r, g) ==
    IF b = "gl2" THEN gl2_cleanup(r, g) ELSE gl3_cleanup(r, g)

(***************************************************************************)
(* The frame loop of main() and the timer queries of the device.  A query  *)
(* object is "new" when generated, "active" from glBeginQuery to           *)
(* glEndQuery, "ended" until the device has its result, then "available".  *)
(* error records a call the device rejects with GL_INVALID_OPERATION.      *)
(***************************************************************************)
\* main:  GLuint query;  bool query_issued = false;  bool wait_gpu = false;
\* before the first iteration: no query object exists.  texture is the
\* static handle of render_background_texture.  ui64v is the pointer the
\* loader gave for glGetQueryObjectui64v, known at its first test.
main_loop_t ==
    [ pc           |-> "top",
      query        |-> 0,
      query_issued |-> FALSE,
      wait_gpu     |-> FALSE,
      texture      |-> invalid_handle_t,
      ui64v        |-> "untested",
      queries      |-> <<>>,
      error        |-> FALSE ]

\* The query active on the target GL_TIME_ELAPSED, if any.
ActiveQueries(l) == {q \in DOMAIN l.queries : l.queries[q].state = "active"}

\* glGenQueries(1, &query): a new name.
glGenQueries(l) ==
    [l EXCEPT !.queries = Append(@, [state |-> "new", ends |-> 0,
                                     frames |-> 0, seen |-> FALSE,
                                     read |-> FALSE, early |-> FALSE]),
              !.query = Len(l.queries) + 1]

\* glBeginQuery(GL_TIME_ELAPSED, query): rejected while a query is active
\* on the target and for a name that was begun before.
glBeginQuery(l, q) ==
    IF ActiveQueries(l) # {} \/ q \notin DOMAIN l.queries
    THEN [l EXCEPT !.error = TRUE]
    ELSE IF l.queries[q].state # "new" THEN [l EXCEPT !.error = TRUE]
    ELSE [l EXCEPT !.queries[q].state = "active"]

\* glEndQuery(GL_TIME_ELAPSED): rejected when no query is active.
glEndQuery(l) ==
    IF ActiveQueries(l) = {} THEN [l EXCEPT !.error = TRUE]
    ELSE [l EXCEPT !.queries =
            [q \in DOMAIN @ |->
                IF q \in ActiveQueries(l)
                THEN [@[q] EXCEPT !.state = "ended", !.ends = @ + 1]
                ELSE @[q]]]

\* glGetQueryObjectiv(query, GL_QUERY_RESULT_AVAILABLE, &available): does
\* not wait; rejected for a query that is active, and then available keeps
\* the 0 it was given.  seen records that available came back true.
glGetQueryObjectiv(l, q) ==
    IF q \notin DOMAIN l.queries THEN [l EXCEPT !.error = TRUE]
    ELSE IF l.queries[q].state = "active" THEN [l EXCEPT !.error = TRUE]
    ELSE IF l.queries[q].state = "available"
         THEN [l EXCEPT !.queries[q].seen = TRUE]
         ELSE l

stopTimerAvailable(l, q) ==
    q \in DOMAIN l.queries /\ l.queries[q].state = "available"

\* glGetQueryObjectui64v(query, GL_QUERY_RESULT, &result_time): early
\* records a read of a result the device had not reported available.
glGetQueryObjectui64v(l, q) ==
    IF q \notin DOMAIN l.queries THEN [l EXCEPT !.error = TRUE]
    ELSE [l EXCEPT !.queries[q].read = TRUE,
                   !.queries[q].early =
                       @ \/ l.queries[q].state # "available"]

\* if (!query_issued) { glGenQueries; glBeginQuery; query_issued = true; }
loop_issue_query(l) ==
    IF ~l.query_issued
    THEN LET l1 == glGenQueries(l)
         IN  [glBeginQuery(l1, l1.query) EXCEPT !.query_issued = TRUE]
    ELSE l

\* The device has the commands of one more frame; frames counts, up to 2,
\* the frames submitted while a query is active.
loop_render(l, texture) ==
    [l EXCEPT !.texture = texture,
              !.queries =
        [q \in DOMAIN @ |->
            IF q \in ActiveQueries(l)
            THEN [@[q] EXCEPT !.frames = IF @ < 2 THEN @ + 1 ELSE @]
            ELSE @[q]]]

\* if (query_issued) that ends the query whether or not it is waited for.
loop_end_query_unguarded(l) ==
    IF l.query_issued
    THEN [glEndQuery(l) EXCEPT !.wait_gpu = TRUE]
    ELSE l

\* if (query_issued && !wait_gpu) { glEndQuery; wait_gpu = true; }
loop_end_query(l) ==
    IF l.query_issued /\ ~l.wait_gpu
    THEN [glEndQuery(l) EXCEPT !.wait_gpu = TRUE]
    ELSE l

\* glGetQueryObjectiv(query, GL_QUERY_RESULT_AVAILABLE, &stopTimerAvailable);
\* if (stopTimerAvailable) { glGetQueryObjectui64v(query, GL_QUERY_RESULT,
\* &result_time); wait_gpu = false; query_issued = false; ... }
loop_poll(l, loaded) ==
    LET l1 == glGetQueryObjectiv(l, l.query)
        l2 == IF loaded THEN glGetQueryObjectui64v(l1, l.query) ELSE l1
    IN  IF stopTimerAvailable(l, l.query)
        THEN [l2 EXCEPT !.wait_gpu = FALSE, !.query_issued = FALSE,
                        !.ui64v = IF loaded THEN "loaded" ELSE "null"]
        ELSE l1

(***************************************************************************)
(* State.                                                                  *)
(***************************************************************************)
VARIABLES
    allocator,  \* the handle_alloc_t under test
    call,       \* the last call made: [op, arg, ret]
    prev,       \* the call made before it
    live,       \* handles the caller holds: returned by alloc, not freed since
    freed,      \* handles freed and not re-allocated since, most recent first
    issued,     \* handles returned by alloc since construction / reset
    fresh,      \* successful alloc calls since construction / reset, while
                \* nothing else was called and no alloc failed; else NoValue
    exh,        \* progress through: fill the pool, alloc, free, alloc
    scen,       \* progress through the capacity-4 end-to-end scenario
    render,     \* the renderer_gl3_t
    gl,         \* the device: [textures, log]
    num_frac,   \* the global num_frac
    phase,      \* "idle" between frames, "frame" from begin_frame to end_frame
    rcall,      \* the last renderer call made: [op, ret]
    held,       \* handles create_texture returned, not passed to destroy_texture
    bound,      \* per texture() call of the frame: the name bound and whether
                \* that texture still exists
    backend,    \* the renderer main() constructs: "gl2" or "gl3"
    binds,      \* glBindTexture calls issued through bind_texture(): by
                \* texture() since begin_frame, or on the entry of unit 0 and
                \* GL_TEXTURE_2D since construction
    ucall,      \* the last call of the state cache: [op, cell, expected, force]
    applied,    \* the values applied to the entry of unit 0 and GL_TEXTURE_2D
                \* since construction, while nothing else was called
    draw_list,  \* the draw_list_t
    dcall,      \* the last call of the draw list: [op, vertex, index]
    submitted,  \* the arrays of the draw() calls of the frame under way or
                \* just ended, in call order
    retained,   \* what begin_frame()'s clear() left in the storage of
                \* bind_textures and draw_list.commands
    drawn,      \* the draws the device was asked for in the frame under
                \* way or just ended
    loop        \* main()'s frame loop: its position, query, query_issued and
                \* wait_gpu, and the device's query objects

alloc_vars == <<allocator, call, prev, live, freed, issued, fresh, exh, scen>>
gl3_vars == <<render, gl, num_frac, phase, rcall, held, bound>>
cache_vars == <<ucall, applied>>
list_vars == <<draw_list, dcall, submitted>>
frame_vars == <<retained, drawn, loop>>
vars ==
    <<alloc_vars, gl3_vars, backend, binds, cache_vars, list_vars, frame_vars>>

\* What the calls of one component leave alone.
not_alloc_vars == <<gl3_vars, backend, binds, cache_vars, list_vars, frame_vars>>
not_gl3_vars == <<alloc_vars, backend, binds, cache_vars, list_vars, frame_vars>>
not_gl2_vars ==
    <<alloc_vars, num_frac, backend, cache_vars, list_vars, frame_vars>>
not_cache_vars ==
    <<alloc_vars, num_frac, phase, rcall, held, bound, backend, list_vars,
      frame_vars>>
not_list_vars ==
    <<alloc_vars, gl3_vars, backend, binds, cache_vars, frame_vars>>
not_loop_vars ==
    <<alloc_vars, gl3_vars, backend, binds, cache_vars, list_vars, retained,
      drawn>>

Call(op, arg, ret) == [op |-> op, arg |-> arg, ret |-> ret]

\* What render_background_texture submits per draw: the six vertices of
\* two triangles (the corners 3 and 2 appear twice), the indices 0..5 and
\* a uniform_t.
quad_vertices == <<1, 2, 3, 3, 2, 4>>

quad_indices == <<0, 1, 2, 3, 4, 5>>

quad_uniform == 1

\* The sequence s without the value x.
Without(s, x) == SelectSeq(s, LAMBDA y : y # x)

(***************************************************************************)
(* The allocator driven by a caller that frees only handles it holds.      *)
(***************************************************************************)
\* The caller's record at construction: nothing allocated, nothing freed.
CallerStart ==
    /\ call = Call("new", NoValue, NoValue)
    /\ prev = Call("none", NoValue, NoValue)
    /\ live = {}
    /\ freed = <<>>
    /\ issued = {}
    /\ fresh = 0
    /\ exh = 0
    /\ scen = 0
    /\ loop = main_loop_t

\* handle_alloc_t<n> allocator;  for a capacity n up to MaxHandles.
AllocStart ==
    /\ \E n \in 1..MaxHandles :
         \E garbage \in [0..(n - 1) -> IndeterminateBytes] :
            allocator = handle_alloc_t(n, garbage)
    /\ CallerStart

\* TEST(handle_alloc_t, test_sequential):  handle_alloc_t<255> allocator;
test_sequential_start ==
    /\ \E b \in IndeterminateBytes :
         allocator = handle_alloc_t(test_max_handles,
                                    [i \in 0..(test_max_handles - 1) |-> b])
    /\ CallerStart

\* The end-to-end scenario: alloc x4, free(1), alloc, alloc.
ScenarioStep(k) ==
    IF k \in {1, 2, 3, 4, 6, 7} THEN Call("alloc", NoValue, NoValue)
    ELSE Call("free", 1, NoValue)

ScenarioNext(op, arg) ==
    IF scen \in 0..6 /\ ScenarioStep(scen + 1).op = op
                     /\ ScenarioStep(scen + 1).arg = arg
    THEN scen + 1
    ELSE NoValue

alloc ==
    LET r == handle_alloc_alloc(allocator)
        h == r.handle
    IN  /\ allocator' = r.alloc
        /\ call' = Call("alloc", NoValue, h)
        /\ prev' = call
        /\ live' = IF h = invalid_handle_t THEN live ELSE live \cup {h}
        /\ freed' = Without(freed, h)
        /\ issued' = IF h = invalid_handle_t THEN issued ELSE issued \cup {h}
        /\ fresh' = IF fresh # NoValue /\ h # invalid_handle_t
                    THEN fresh + 1 ELSE NoValue
        /\ exh' = CASE fresh' = allocator.max_handles -> 1
                    [] exh \in {1, 2}                  -> 2
                    [] exh = 3                         -> 4
                    [] OTHER                           -> 0
        /\ scen' = ScenarioNext("alloc", NoValue)
        /\ UNCHANGED not_alloc_vars

free(h) ==
    /\ h \in live
    /\ allocator' = handle_alloc_free(allocator, h)
    /\ call' = Call("free", h, NoValue)
    /\ prev' = call
    /\ live' = live \ {h}
    /\ freed' = <<h>> \o Without(freed, h)
    /\ fresh' = NoValue
    /\ exh' = IF exh = 2 THEN 3 ELSE 0
    /\ scen' = ScenarioNext("free", h)
    /\ UNCHANGED <<issued, not_alloc_vars>>

FreeInvalid ==
    /\ allocator.max_handles <= MaxHandles
    /\ allocator' = handle_alloc_free(allocator, invalid_handle_t)
    /\ call' = Call("free", invalid_handle_t, NoValue)
    /\ prev' = call
    /\ fresh' = NoValue
    /\ exh' = 0
    /\ scen' = NoValue
    /\ UNCHANGED <<live, freed, issued, not_alloc_vars>>

Reset ==
    /\ allocator.max_handles <= MaxHandles
    /\ allocator' = handle_alloc_reset(allocator)
    /\ call' = Call("reset", NoValue, NoValue)
    /\ prev' = call
    /\ live' = {}
    /\ freed' = <<>>
    /\ issued' = {}
    /\ fresh' = 0
    /\ exh' = 0
    /\ scen' = NoValue
    /\ UNCHANGED not_alloc_vars

\* A pool of capacity up to MaxHandles is called in any order.
Alloc ==
    /\ allocator.max_handles <= MaxHandles
    /\ alloc

Free(h) ==
    /\ allocator.max_handles <= MaxHandles
    /\ free(h)

\* test_sequential:  for (i < 255) allocator.alloc();  and the last alloc().
test_sequential_alloc ==
    /\ allocator.max_handles = test_max_handles
    /\ fresh \in 0..(test_max_handles - 1) \/ Len(freed) = test_max_handles
    /\ alloc

\* test_sequential:  for (i < 255) allocator.free(i);
test_sequential_free ==
    /\ allocator.max_handles = test_max_handles
    /\ \/ fresh = test_max_handles
       \/ call.op = "free" /\ Len(freed) < test_max_handles
    /\ free(Len(freed))

AllocNext ==
    \/ Alloc
    \/ \E h \in 0..(MaxHandles - 1) : Free(h)
    \/ FreeInvalid
    \/ Reset
    \/ test_sequential_alloc
    \/ test_sequential_free

(***************************************************************************)
(* The batched renderer driven by a caller that binds and destroys only    *)
(* textures it holds, brackets its submissions by begin_frame() and        *)
(* end_frame(), and submits each draw as render_background_texture does:   *)
(* uniform(), texture(), draw().  Textures are created and destroyed at    *)
(* any point, in or between frames.                                        *)
(***************************************************************************)
Gl3Start ==
    /\ render = renderer_gl3_t
    /\ gl = device
    /\ num_frac \in Fracs
    /\ phase = "idle"
    /\ rcall = [op |-> "setup", ret |-> NoValue]
    /\ held = {}
    /\ bound = <<>>
    /\ backend = "gl3"
    /\ binds = 0

\* The bindings of the frame after the device went from g to g1: a binding
\* whose texture was deleted no longer names the texture the caller bound.
Rebound(b, g, g1) ==
    [i \in DOMAIN b |->
        [b[i] EXCEPT !.alive = @ /\ (b[i].name \in g1.textures
                                       \/ b[i].name \notin g.textures)]]

\* The device before a renderer call: no call issued yet.
Quiet(g) == [g EXCEPT !.log = <<>>]

Apply(res, op) ==
    /\ render' = res.render
    /\ gl' = res.gl
    /\ rcall' = [op |-> op, ret |-> res.ret]

BeginFrame ==
    /\ backend = "gl3"
    /\ phase = "idle"
    /\ Apply(gl3_begin_frame(render, Quiet(gl)), "begin_frame")
    /\ phase' = "frame"
    /\ bound' = <<>>
    /\ UNCHANGED <<num_frac, held, not_gl3_vars>>

Draw ==
    /\ backend = "gl3"
    /\ phase = "frame"
    /\ Len(render.bind_textures) = Len(render.draw_list.commands) + 1
    /\ Apply(gl3_draw(render, Quiet(gl), quad_vertices, quad_indices), "draw")
    /\ UNCHANGED <<num_frac, phase, held, bound, not_gl3_vars>>

Uniform ==
    /\ backend = "gl3"
    /\ phase = "frame"
    /\ Len(render.uniforms) < MaxSubmit
    /\ Len(render.uniforms) = Len(render.draw_list.commands)
    /\ Apply(gl3_uniform(render, Quiet(gl), quad_uniform), "uniform")
    /\ UNCHANGED <<num_frac, phase, held, bound, not_gl3_vars>>

Texture(h) ==
    /\ backend = "gl3"
    /\ phase = "frame"
    /\ h \in held
    /\ Len(render.uniforms) = Len(render.bind_textures) + 1
    /\ Apply(gl3_texture(render, Quiet(gl), h), "texture")
    /\ bound' = Append(bound, [name |-> render.textures[h], alive |-> TRUE])
    /\ UNCHANGED <<num_frac, phase, held, not_gl3_vars>>

CreateTexture(instance) ==
    /\ backend = "gl3"
    /\ instance \notin gl.textures
    /\ LET res == gl3_create_texture(render, Quiet(gl), instance)
       IN  /\ Apply(res, "create_texture")
           /\ held' = IF res.ret = invalid_handle_t THEN held
                      ELSE held \cup {res.ret}
           /\ bound' = Rebound(bound, gl, res.gl)
    /\ UNCHANGED <<num_frac, phase, not_gl3_vars>>

DestroyTexture(h) ==
    /\ backend = "gl3"
    /\ h \in held
    /\ LET res == gl3_destroy_texture(render, Quiet(gl), h)
       IN  /\ Apply(res, "destroy_texture")
           /\ bound' = Rebound(bound, gl, res.gl)
    /\ held' = held \ {h}
    /\ UNCHANGED <<num_frac, phase, not_gl3_vars>>

DestroyInvalid ==
    /\ backend = "gl3"
    /\ LET res == gl3_destroy_texture(render, Quiet(gl), invalid_handle_t)
       IN  /\ Apply(res, "destroy_texture")
           /\ bound' = Rebound(bound, gl, res.gl)
    /\ UNCHANGED <<num_frac, phase, held, not_gl3_vars>>

\* What end_frame() reads past the end of bind_textures when fewer than
\* num_frac textures were bound is indeterminate: any name, or none.
EndFrame ==
    /\ backend = "gl3"
    /\ phase = "frame"
    /\ Len(render.uniforms) = Len(render.draw_list.commands)
    /\ \E garbage \in [(Len(render.bind_textures) + 1)..num_frac
                          -> {indeterminate(w) : w \in {0} \cup Instances}] :
          Apply(gl3_end_frame(render, Quiet(gl), num_frac, garbage),
                "end_frame")
    /\ phase' = "idle"
    /\ UNCHANGED <<num_frac, held, bound, not_gl3_vars>>

\* The profiler's slider sets num_frac between frames.
SetNumFrac(n) ==
    /\ backend = "gl3"
    /\ phase = "idle"
    /\ n # num_frac
    /\ num_frac' = n
    /\ rcall' = [op |-> "render_ui", ret |-> NoValue]
    /\ gl' = Quiet(gl)
    /\ UNCHANGED <<render, phase, held, bound, not_gl3_vars>>

Gl3Next ==
    \/ BeginFrame
    \/ Draw
    \/ Uniform
    \/ \E h \in 0..(MaxTexture - 1) : Texture(h)
    \/ \E instance \in Instances : CreateTexture(instance)
    \/ \E h \in 0..(MaxTexture - 1) : DestroyTexture(h)
    \/ DestroyInvalid
    \/ EndFrame
    \/ \E n \in Fracs : SetNumFrac(n)

(***************************************************************************)
(* The immediate renderer (renderer_gl2_t, with the texture registry of    *)
(* renderer_opengl_t) driven as render_background_texture drives it:       *)
(* begin_frame(), then per submission an optional destroy_texture() and    *)
(* create_texture(), then uniform(), texture(), draw(), and end_frame().   *)
(* Textures are also created and destroyed between frames.                 *)
(***************************************************************************)
\* main:  auto render = renderer_gl2_t();  render.setup();  The immediate
\* renderer reads num_frac only to set draw_count.
Gl2Start ==
    /\ render = renderer_opengl_t
    /\ gl = device
    /\ num_frac = 1
    /\ phase = "idle"
    /\ rcall = [op |-> "setup", ret |-> NoValue, arg |-> NoValue]
    /\ held = {}
    /\ bound = <<>>
    /\ backend = "gl2"
    /\ binds = 0

ApplyArg(res, op, arg) ==
    /\ render' = res.render
    /\ gl' = res.gl
    /\ rcall' = [op |-> op, ret |-> res.ret, arg |-> arg]

\* The glBindTexture calls in a log.
BindCalls(log) == Len(SelectSeq(log, LAMBDA c : c.gl = "glBindTexture"))

\* The caller is between two submissions.
Between == rcall.op \notin {"uniform", "texture"}

Gl2BeginFrame ==
    /\ backend = "gl2"
    /\ phase = "idle"
    /\ ApplyArg(gl2_begin_frame(render, Quiet(gl)), "begin_frame", NoValue)
    /\ phase' = "frame"
    /\ bound' = <<>>
    /\ binds' = 0
    /\ UNCHANGED <<held, not_gl2_vars>>

Gl2Uniform ==
    /\ backend = "gl2"
    /\ phase = "frame"
    /\ Between
    /\ held # {}
    /\ Len(bound) < MaxSubmit
    /\ ApplyArg(gl2_uniform(render, Quiet(gl), quad_uniform), "uniform",
                NoValue)
    /\ UNCHANGED <<phase, held, bound, binds, not_gl2_vars>>

Gl2Texture(h) ==
    /\ backend = "gl2"
    /\ phase = "frame"
    /\ rcall.op = "uniform"
    /\ h \in held
    /\ LET res == gl2_texture(render, Quiet(gl), h)
       IN  /\ ApplyArg(res, "texture", h)
           /\ binds' = binds + BindCalls(res.gl.log)
    /\ bound' = Append(bound, [name |-> render.textures[h], alive |-> TRUE])
    /\ UNCHANGED <<phase, held, not_gl2_vars>>

Gl2Draw ==
    /\ backend = "gl2"
    /\ phase = "frame"
    /\ rcall.op = "texture"
    /\ ApplyArg(gl2_draw(render, Quiet(gl), quad_vertices, quad_indices),
                "draw", NoValue)
    /\ UNCHANGED <<phase, held, bound, binds, not_gl2_vars>>

Gl2EndFrame ==
    /\ backend = "gl2"
    /\ phase = "frame"
    /\ Between
    /\ ApplyArg(gl2_end_frame(render, Quiet(gl)), "end_frame", NoValue)
    /\ phase' = "idle"
    /\ UNCHANGED <<held, bound, binds, not_gl2_vars>>

Gl2CreateTexture(instance) ==
    /\ backend = "gl2"
    /\ Between
    /\ instance \notin gl.textures
    /\ LET res == create_texture(render, Quiet(gl), instance)
       IN  /\ ApplyArg(res, "create_texture", NoValue)
           /\ held' = IF res.ret = invalid_handle_t THEN held
                      ELSE held \cup {res.ret}
           /\ bound' = Rebound(bound, gl, res.gl)
    /\ UNCHANGED <<phase, binds, not_gl2_vars>>

Gl2DestroyTexture(h) ==
    /\ backend = "gl2"
    /\ Between
    /\ h \in held
    /\ LET res == destroy_texture(render, Quiet(gl), h)
       IN  /\ ApplyArg(res, "destroy_texture", h)
           /\ bound' = Rebound(bound, gl, res.gl)
    /\ held' = held \ {h}
    /\ UNCHANGED <<phase, binds, not_gl2_vars>>

Gl2DestroyInvalid ==
    /\ backend = "gl2"
    /\ Between
    /\ LET res == destroy_texture(render, Quiet(gl), invalid_handle_t)
       IN  /\ ApplyArg(res, "destroy_texture", invalid_handle_t)
           /\ bound' = Rebound(bound, gl, res.gl)
    /\ UNCHANGED <<phase, held, binds, not_gl2_vars>>

Gl2Next ==
    \/ Gl2BeginFrame
    \/ Gl2Uniform
    \/ \E h \in 0..(MaxTexture - 1) : Gl2Texture(h)
    \/ Gl2Draw
    \/ Gl2EndFrame
    \/ \E instance \in Instances : Gl2CreateTexture(instance)
    \/ \E h \in 0..(MaxTexture - 1) : Gl2DestroyTexture(h)
    \/ Gl2DestroyInvalid

(***************************************************************************)
(* The per-draw-uniform renderer (renderer_gl31_t) driven as               *)
(* render_background_texture drives it: begin_frame(), then per submission *)
(* an optional destroy_texture() and create_texture(), then uniform(),     *)
(* texture(), draw(), and end_frame().                                     *)
(***************************************************************************)
\* main:  auto render = renderer_gl31_t();  render.setup();
Gl31Start ==
    /\ render = renderer_gl3_t
    /\ gl = device
    /\ num_frac = 1
    /\ phase = "idle"
    /\ rcall = [op |-> "setup", ret |-> NoValue, arg |-> NoValue]
    /\ held = {}
    /\ bound = <<>>
    /\ backend = "gl31"
    /\ binds = 0

Gl31BeginFrame ==
    /\ backend = "gl31"
    /\ phase = "idle"
    /\ ApplyArg(gl31_begin_frame(render, Quiet(gl)), "begin_frame", NoValue)
    /\ phase' = "frame"
    /\ bound' = <<>>
    /\ UNCHANGED <<held, binds, not_gl2_vars>>

Gl31Uniform ==
    /\ backend = "gl31"
    /\ phase = "frame"
    /\ Between
    /\ held # {}
    /\ Len(bound) < MaxSubmit
    /\ ApplyArg(gl31_uniform(render, Quiet(gl), quad_uniform), "uniform",
                NoValue)
    /\ UNCHANGED <<phase, held, bound, binds, not_gl2_vars>>

Gl31Texture(h) ==
    /\ backend = "gl31"
    /\ phase = "frame"
    /\ rcall.op = "uniform"
    /\ h \in held
    /\ ApplyArg(gl31_texture(render, Quiet(gl), h), "texture", h)
    /\ bound' = Append(bound, [name |-> render.textures[h], alive |-> TRUE])
    /\ UNCHANGED <<phase, held, binds, not_gl2_vars>>

Gl31Draw ==
    /\ backend = "gl31"
    /\ phase = "frame"
    /\ rcall.op = "texture"
    /\ ApplyArg(gl31_draw(render, Quiet(gl), quad_vertices, quad_indices),
                "draw", NoValue)
    /\ UNCHANGED <<phase, held, bound, binds, not_gl2_vars>>

Gl31EndFrame ==
    /\ backend = "gl31"
    /\ phase = "frame"
    /\ Between
    /\ ApplyArg(gl31_end_frame(render, Quiet(gl)), "end_frame", NoValue)
    /\ phase' = "idle"
    /\ UNCHANGED <<held, bound, binds, not_gl2_vars>>

\* renderer_gl31_t inherits create_texture and destroy_texture from
\* renderer_gl3_t.
Gl31CreateTexture(instance) ==
    /\ backend = "gl31"
    /\ phase = "frame"
    /\ Between
    /\ instance \notin gl.textures
    /\ LET res == gl3_create_texture(render, Quiet(gl), instance)
       IN  /\ ApplyArg(res, "create_texture", NoValue)
           /\ held' = IF res.ret = invalid_handle_t THEN held
                      ELSE held \cup {res.ret}
           /\ bound' = Rebound(bound, gl, res.gl)
    /\ UNCHANGED <<phase, binds, not_gl2_vars>>

Gl31DestroyTexture(h) ==
    /\ backend = "gl31"
    /\ phase = "frame"
    /\ Between
    /\ h \in held
    /\ LET res == gl3_destroy_texture(render, Quiet(gl), h)
       IN  /\ ApplyArg(res, "destroy_texture", h)
           /\ bound' = Rebound(bound, gl, res.gl)
    /\ held' = held \ {h}
    /\ UNCHANGED <<phase, binds, not_gl2_vars>>

Gl31Next ==
    \/ Gl31BeginFrame
    \/ Gl31Uniform
    \/ \E h \in 0..(MaxTexture - 1) : Gl31Texture(h)
    \/ Gl31Draw
    \/ Gl31EndFrame
    \/ \E instance \in Instances : Gl31CreateTexture(instance)
    \/ \E h \in 0..(MaxTexture - 1) : Gl31DestroyTexture(h)

(***************************************************************************)
(* The frame loop of main(), one action per statement group of an          *)
(* iteration, and the device completing a query at any time.  The frame    *)
(* itself is one step here; what it does to the renderer is the subject of *)
(* the renderer specifications.                                            *)
(***************************************************************************)
LoopAt(pc, l, next) ==
    /\ loop.pc = pc
    /\ loop' = [l EXCEPT !.pc = next]
    /\ UNCHANGED not_loop_vars

LoopIssueQuery == LoopAt("top", loop_issue_query(loop), "render")

\* F of the value of x, with x evaluated once.
Then(x, F(_)) == CHOOSE y \in {F(v) : v \in {x}} : TRUE

\* if (index != texture_index) { render.destroy_texture(texture); texture =
\* render.create_texture({ 2, 2, (uint8_t*)texel}); texture_index = index; }
replace_texture(b, fr, index, instance) ==
    IF index # fr.texture_index
    THEN Then(render_destroy_texture(b, fr.render, fr.gl, fr.texture),
           LAMBDA d :
         Then(render_create_texture(b, d.render, d.gl, instance),
           LAMBDA c :
         [render |-> c.render, gl |-> c.gl, texture |-> c.ret,
          texture_index |-> index,
          ok |-> fr.ok /\ instance \notin d.gl.textures]))
    ELSE fr

\* render.uniform(data); render.texture(texture); render.draw(vertices, 6,
\* indices, 6);
submit_quad(b, fr) ==
    Then(render_uniform(b, fr.render, fr.gl, quad_uniform), LAMBDA u :
    Then(render_texture(b, u.render, u.gl, fr.texture), LAMBDA t :
    Then(render_draw(b, t.render, t.gl, quad_vertices, quad_indices),
      LAMBDA w : [fr EXCEPT !.render = w.render, !.gl = w.gl])))

\* for (int i = 0; i < num_frac; i++), from the i-th quad on:  index =
\* i * 4 / num_frac picks the texture.  names[i] is the name glGenTextures
\* gives in create_texture; ok says every name given was an unused one.
RECURSIVE submit_quads(_, _, _, _, _)
submit_quads(b, fr, i, frac, names) ==
    IF i >= frac THEN fr
    ELSE Then(replace_texture(b, fr, (i * 4) \div frac, names[i]),
           LAMBDA f1 :
         Then(submit_quad(b, f1),
           LAMBDA f2 : submit_quads(b, f2, i + 1, frac, names)))

\* void render_background_texture(renderer_opengl_t& render)
render_background_texture(b, r, g, texture, frac, names) ==
    Then(render_begin_frame(b, r, g), LAMBDA bf :
    Then(submit_quads(b, [render |-> bf.render, gl |-> bf.gl,
                          texture |-> texture, texture_index |-> NoValue,
                          ok |-> TRUE],
                      0, frac, names), LAMBDA fr :
    Then(render_end_frame(b, fr.render, fr.gl, frac, <<>>), LAMBDA ef :
         [fr EXCEPT !.render = ef.render, !.gl = ef.gl])))

\* main:  render_background_texture(render);
LoopRender ==
    /\ loop.pc = "render"
    /\ \E names \in [0..(num_frac - 1) -> Instances] :
          \E fr \in {render_background_texture(backend, render, Quiet(gl),
                                               loop.texture, num_frac, names)} :
              /\ fr.ok
              /\ render' = fr.render
              /\ gl' = fr.gl
              /\ loop' = [loop_render(loop, fr.texture) EXCEPT !.pc = "end"]
    /\ UNCHANGED <<alloc_vars, num_frac, phase, rcall, held, bound, backend,
                   binds, cache_vars, list_vars, retained, drawn>>

LoopEndQuery == LoopAt("end", loop_end_query(loop), "poll")

\* loaded: the loader resolved glGetQueryObjectui64v.
LoopPoll(loaded) ==
    /\ loop.ui64v \in {"untested", IF loaded THEN "loaded" ELSE "null"}
    /\ LoopAt("poll", loop_poll(loop, loaded), "swap")

\* render.render_ui(), which makes no query call; glfwSwapBuffers(window);
\* glfwPollEvents(); if (glfwWindowShouldClose(window)) running =
\* GLFW_FALSE;  the window closes at the latest when
\* MaxQuery queries have been generated.
LoopSwap(close) ==
    /\ close \/ Len(loop.queries) < MaxQuery
    /\ LoopAt("swap", loop, IF close THEN "exit" ELSE "top")

\* The device finishes the commands a query brackets.
QueryCompletes(q) ==
    /\ q \in DOMAIN loop.queries
    /\ loop.queries[q].state = "ended"
    /\ loop' = [loop EXCEPT !.queries[q].state = "available"]
    /\ UNCHANGED not_loop_vars

\* The statements of main(): the thread runs on, no call of the loop waits.
LoopStep ==
    \/ LoopIssueQuery
    \/ LoopRender
    \/ LoopEndQuery
    \/ \E loaded \in BOOLEAN : LoopPoll(loaded)
    \/ \E close \in BOOLEAN : LoopSwap(close)

LoopNext ==
    \/ LoopStep
    \/ \E q \in 1..MaxQuery : QueryCompletes(q)

(***************************************************************************)
(* Any of the three renderers driven through the virtual calls as main()   *)
(* and render_background_texture drive it: setup(), textures created and   *)
(* destroyed between frames, frames of begin_frame(), submissions of       *)
(* uniform(), texture(), draw(), and end_frame(), and cleanup().  The      *)
(* caller holds one texture at a time and the i-th submission of a frame   *)
(* carries the uniform i, as in render_background_texture.                 *)
(***************************************************************************)
\* The values of GL_UNIFORM_BUFFER_OFFSET_ALIGNMENT a device reports: the
\* OpenGL limits only bound it by max_alignment.
Alignments == {96, max_alignment}

\* What the device answers to glCreateShader / glCreateProgram (a name,
\* 0 on failure) and to the query of the compile or link status.
ShaderOutcomes == [id : {0, 1}, compiled : BOOLEAN]

ProgramOutcomes == [id : {0, 1}, linked : BOOLEAN]

SetupOutcomes ==
    [vertex : ShaderOutcomes, fragment : ShaderOutcomes,
     program : ProgramOutcomes]

\* The arrays draw() is called with: three vertices taken in order, as
\* render_background_texture does, and two vertices taken in reverse.
Meshes ==
    { [vertex |-> <<1, 2, 3>>, index |-> <<0, 1, 2>>],
      [vertex |-> <<4, 5>>, index |-> <<1, 0>>] }

\* main:  auto render = renderer_gl2_t() / renderer_gl3_t() /
\* renderer_gl31_t();  before  render.setup().  Only the batched renderer
\* binds ranges of the uniform buffer and reads num_frac for more than
\* draw_count.
FrameStart ==
    /\ backend \in {"gl2", "gl3", "gl31"}
    /\ render = IF backend = "gl2" THEN renderer_opengl_t ELSE renderer_gl3_t
    /\ gl \in {[device EXCEPT !.alignment = a] :
                  a \in IF backend = "gl3" THEN Alignments
                        ELSE {max_alignment}}
    /\ num_frac \in IF backend = "gl3" THEN Fracs ELSE {1}
    /\ phase = "new"
    /\ rcall = [op |-> "new", ret |-> NoValue, arg |-> NoValue]
    /\ held = {}
    /\ bound = <<>>
    /\ binds = 0

\* The draw calls of a log, in order, each as the vertices drawn, the
\* uniform read and the texture sampled.
Draws(log) ==
    LET calls == SelectSeq(log, LAMBDA c :
                     c.gl \in {"glDrawElements", "glDrawArrays"})
    IN  [i \in DOMAIN calls |->
            [vertices |-> calls[i].vertices, uniform |-> calls[i].uniform,
             texture |-> calls[i].texture]]

\* What the frame's calls leave alone.
not_frame_vars ==
    <<alloc_vars, num_frac, backend, bound, binds, cache_vars, draw_list,
      dcall, loop>>

\* main:  if (!render.setup()) { glfwTerminate(); exit(EXIT_SUCCESS); }
FrameSetup(outcome) ==
    /\ phase = "new"
    /\ ApplyArg(setup(render, Quiet(gl), outcome), "setup", outcome)
    /\ phase' = IF rcall'.ret THEN "idle" ELSE "exit"
    /\ UNCHANGED <<held, submitted, retained, drawn, not_frame_vars>>

FrameCreateTexture(instance) ==
    /\ phase = "idle"
    /\ held = {}
    /\ render.handle_alloc.num_handles < render.handle_alloc.max_handles
    /\ instance \notin gl.textures
    /\ LET res == render_create_texture(backend, render, Quiet(gl), instance)
       IN  /\ ApplyArg(res, "create_texture", NoValue)
           /\ held' = held \cup {res.ret}
    /\ submitted' = <<>>
    /\ drawn' = <<>>
    /\ UNCHANGED <<phase, retained, not_frame_vars>>

FrameDestroyTexture(h) ==
    /\ phase = "idle"
    /\ h \in held
    /\ ApplyArg(render_destroy_texture(backend, render, Quiet(gl), h),
                "destroy_texture", h)
    /\ held' = held \ {h}
    /\ submitted' = <<>>
    /\ drawn' = <<>>
    /\ UNCHANGED <<phase, retained, not_frame_vars>>

\* clear() keeps the storage of the vectors: their cells still hold what
\* the frame before wrote.
FrameBeginFrame ==
    /\ phase = "idle"
    /\ ApplyArg(render_begin_frame(backend, render, Quiet(gl)),
                "begin_frame", NoValue)
    /\ phase' = "frame"
    /\ submitted' = <<>>
    /\ drawn' = <<>>
    /\ retained' = IF backend = "gl3"
                   THEN [bind_textures |-> render.bind_textures,
                         commands      |-> render.draw_list.commands]
                   ELSE retained
    /\ UNCHANGED <<held, not_frame_vars>>

FrameUniform ==
    /\ phase = "frame"
    /\ Between
    /\ held # {}
    /\ Len(submitted) < MaxSubmit
    /\ LET uniform == Len(submitted) + 1
       IN  /\ ApplyArg(render_uniform(backend, render, Quiet(gl), uniform),
                       "uniform", uniform)
           /\ drawn' = drawn \o Draws(gl'.log)
           /\ submitted' = Append(submitted,
                                  [uniform |-> uniform, handle |-> NoValue,
                                   texture |-> NoValue, vertex |-> <<>>,
                                   index |-> <<>>])
    /\ UNCHANGED <<phase, held, retained, not_frame_vars>>

FrameTexture(h) ==
    /\ phase = "frame"
    /\ rcall.op = "uniform"
    /\ h \in held
    /\ ApplyArg(render_texture(backend, render, Quiet(gl), h), "texture", h)
    /\ drawn' = drawn \o Draws(gl'.log)
    /\ submitted' = [submitted EXCEPT ![Len(submitted)] =
                        [@ EXCEPT !.handle = h,
                                  !.texture = render.textures[h]]]
    /\ UNCHANGED <<phase, held, retained, not_frame_vars>>

FrameDraw(mesh) ==
    /\ phase = "frame"
    /\ rcall.op = "texture"
    /\ ApplyArg(render_draw(backend, render, Quiet(gl), mesh.vertex,
                            mesh.index), "draw", mesh)
    /\ drawn' = drawn \o Draws(gl'.log)
    /\ submitted' = [submitted EXCEPT ![Len(submitted)] =
                        [@ EXCEPT !.vertex = mesh.vertex,
                                  !.index = mesh.index]]
    /\ UNCHANGED <<phase, held, retained, not_frame_vars>>

\* What end_frame() of the batched renderer reads for draw i past the end
\* of its vectors: the cells the frame before left there (the texture of
\* the handle it bound, its command), or anything else.  uniform_offsets
\* is a new vector in every call.
PastTheEnd(i) ==
    {indeterminate(w) : w \in {0} \cup Instances}
        \cup {[ texture |-> render.textures[retained.bind_textures[i]],
                mesh    |-> retained.commands[i],
                uniform |-> indeterminate(0).uniform,
                stale   |-> TRUE ] :
                  k \in {i} \cap DOMAIN retained.bind_textures
                             \cap DOMAIN retained.commands}

FrameEndFrame ==
    /\ phase = "frame"
    /\ Between
    /\ LET past == IF backend = "gl3"
                   THEN (Len(submitted) + 1)..num_frac ELSE {}
       IN  \E garbage \in [past -> UNION {PastTheEnd(i) : i \in past}] :
              /\ \A i \in past : garbage[i] \in PastTheEnd(i)
              /\ ApplyArg(render_end_frame(backend, render, Quiet(gl),
                                           num_frac, garbage),
                          "end_frame", garbage)
    /\ drawn' = drawn \o Draws(gl'.log)
    /\ phase' = "idle"
    /\ UNCHANGED <<held, submitted, retained, not_frame_vars>>

\* main:  render.cleanup();  after the last frame.
FrameCleanup ==
    /\ phase = "idle"
    /\ ApplyArg(render_cleanup(backend, render, Quiet(gl)), "cleanup", NoValue)
    /\ phase' = "exit"
    /\ submitted' = <<>>
    /\ drawn' = <<>>
    /\ UNCHANGED <<held, retained, not_frame_vars>>

FrameNext ==
    \/ \E outcome \in SetupOutcomes : FrameSetup(outcome)
    \/ \E instance \in Instances : FrameCreateTexture(instance)
    \/ \E h \in 0..(MaxTexture - 1) : FrameDestroyTexture(h)
    \/ FrameBeginFrame
    \/ FrameUniform
    \/ \E h \in 0..(MaxTexture - 1) : FrameTexture(h)
    \/ \E mesh \in Meshes : FrameDraw(mesh)
    \/ FrameEndFrame
    \/ FrameCleanup

\* No call of the state cache made yet.
CacheStart ==
    /\ ucall = [op |-> "none"]
    /\ applied = <<>>

(***************************************************************************)
(* The state cache of renderer_opengl_t called directly: activate_texture, *)
(* bind_texture, and update_state on the active unit with force set.  No   *)
(* texture state of the device is changed in any other way.                *)
(***************************************************************************)
\* The arguments the calls are made with.
CallUnits == {0, 1}

CallTargets == {"GL_TEXTURE_2D", "GL_TEXTURE_CUBE_MAP", "GL_TEXTURE_3D"}

Names == 0..MaxTexture

\* The applications are no longer consecutive ones of one entry.
Spoiled == <<NoValue>>

CacheCall(op, unit, target, expected, force, before) ==
    [ op |-> op, unit |-> unit, target |-> target, expected |-> expected,
      force |-> force, before |-> before ]

ActivateTexture(unit) ==
    /\ LET res == activate_texture(render, Quiet(gl), unit)
       IN  render' = res.render /\ gl' = res.gl
    /\ ucall' = CacheCall("activate_texture", unit, "", unit, FALSE,
                          render.texture_state.activate)
    /\ applied' = Spoiled
    /\ binds' = 0
    /\ UNCHANGED not_cache_vars

UpdateStateForced(unit) ==
    /\ LET res == update_activate(render, Quiet(gl), unit, TRUE)
       IN  render' = res.render /\ gl' = res.gl
    /\ ucall' = CacheCall("update_state", unit, "", unit, TRUE,
                          render.texture_state.activate)
    /\ applied' = Spoiled
    /\ binds' = 0
    /\ UNCHANGED not_cache_vars

BindTexture(unit, target, instance) ==
    LET res == bind_texture(render, Quiet(gl), unit, target, instance)
    IN  /\ render' = res.render
        /\ gl' = res.gl
        /\ ucall' = CacheCall("bind_texture", unit, target, instance, FALSE,
                render.texture_state.unit[unit]
                    [get_index_for_texture_target(target)])
        /\ applied' = IF /\ unit = 0 /\ target = "GL_TEXTURE_2D"
                         /\ applied # Spoiled /\ Len(applied) < MaxApply
                      THEN Append(applied, instance)
                      ELSE Spoiled
        /\ binds' = IF applied' = Spoiled THEN 0
                    ELSE binds + BindCalls(res.gl.log)
        /\ UNCHANGED not_cache_vars

CacheNext ==
    \/ \E unit \in CallUnits : ActivateTexture(unit)
    \/ \E unit \in CallUnits : UpdateStateForced(unit)
    \/ \E unit \in CallUnits, target \in CallTargets, instance \in Names :
          BindTexture(unit, target, instance)

ListStart ==
    /\ draw_list = draw_list_t
    /\ dcall = [op |-> "new"]
    /\ submitted = <<>>
    /\ retained = [bind_textures |-> <<>>, commands |-> <<>>]
    /\ drawn = <<>>

\* The vertex arrays and the index arrays draw() is called with.
VertexArrays == {<<>>, <<1>>, <<2, 1>>, <<1, 2, 3>>}

IndexArrays == {<<>>, <<0>>, <<1, 0>>, <<0, 1, 2>>, <<2, 2, 0>>}

\* draw_list.draw(vertices, vertex_count, indices, index_count)
ListDraw(vertex, index) ==
    /\ Len(draw_list.commands) < MaxSubmit
    /\ draw_list' = draw_list_draw(draw_list, vertex, index)
    /\ dcall' = [op |-> "draw", vertex |-> vertex, index |-> index]
    /\ submitted' = Append(submitted, [vertex |-> vertex, index |-> index])
    /\ UNCHANGED not_list_vars

\* The start of the next frame.
ListClear ==
    /\ draw_list.commands # <<>>
    /\ draw_list' = draw_list_clear(draw_list)
    /\ dcall' = [op |-> "clear"]
    /\ submitted' = <<>>
    /\ UNCHANGED not_list_vars

ListNext ==
    \/ \E vertex \in VertexArrays, index \in IndexArrays :
          ListDraw(vertex, index)
    \/ ListClear

\* The allocator specification leaves the renderer as set up, with the
\* program's first num_frac; the renderer specification leaves the
\* allocator under test as constructed with one zeroed slot.
AllocInit ==
    /\ AllocStart \/ test_sequential_start
    /\ Gl3Start /\ num_frac = 1
    /\ CacheStart
    /\ ListStart

\* The allocator under test where it is not the subject.
AllocIdle ==
    /\ allocator = handle_alloc_t(1, [i \in 0..0 |-> 0])
    /\ CallerStart

Gl3Init ==
    /\ Gl3Start
    /\ AllocIdle
    /\ CacheStart
    /\ ListStart

Gl2Init ==
    /\ Gl2Start
    /\ AllocIdle
    /\ CacheStart
    /\ ListStart

Spec == AllocInit /\ [][AllocNext]_vars

SpecGl3 == Gl3Init /\ [][Gl3Next]_vars

SpecGl2 == Gl2Init /\ [][Gl2Next]_vars

\* The draw list of a renderer as constructed.
ListInit ==
    /\ render = renderer_gl3_t
    /\ gl = device
    /\ num_frac = 1
    /\ phase = "idle"
    /\ rcall = [op |-> "setup", ret |-> NoValue]
    /\ held = {}
    /\ bound = <<>>
    /\ backend = "gl3"
    /\ binds = 0
    /\ AllocIdle
    /\ CacheStart
    /\ ListStart

SpecList == ListInit /\ [][ListNext]_vars

\* Any of the three renderers, from its construction.
FrameInit ==
    /\ FrameStart
    /\ AllocIdle
    /\ CacheStart
    /\ ListStart

SpecFrame == FrameInit /\ [][FrameNext]_vars

\* The per-draw-uniform renderer, from its construction and setup().
Gl31Init ==
    /\ Gl31Start
    /\ AllocIdle
    /\ CacheStart
    /\ ListStart

SpecGl31 == Gl31Init /\ [][Gl31Next]_vars

\* main() when it enters its loop, with the renderer it constructs under
\* USE_CORE_PROFILE 0: renderer_gl2_t.  The thread of main() keeps running;
\* the device owes no progress.
LoopInit == Gl2Init

SpecLoop == LoopInit /\ [][LoopNext]_vars /\ WF_vars(LoopStep)

\* The state cache of a renderer as constructed.
SpecCache == Gl2Init /\ [][CacheNext]_vars

\* Either renderer, as main() is built.
SpecRenderer == (Gl2Init \/ Gl3Init) /\ [][Gl2Next \/ Gl3Next]_vars

(***************************************************************************)
(* Properties of the handle allocator.                                     *)
(***************************************************************************)
Handles(a) == 0..(a.max_handles - 1)

\* The handles in the first _num_handles entries of _dense.
DensePrefix(a) == {a.dense[i] : i \in 0..(a.num_handles - 1)}

\* A step that is a call of alloc().
AllocStep == call'.op = "alloc" /\ <<call, prev>> # <<call', prev'>>

\* C1: when free is only called on handles the caller holds, every handle
\* the caller holds lies in [0, N), and alloc never returns a handle that
\* is still held, so no two outstanding handles are equal.
C1_UniqueInRange ==
    /\ [](live \subseteq Handles(allocator))
    /\ [][call'.op = "alloc" /\ call'.ret # invalid_handle_t
             => call'.ret \in Handles(allocator) /\ call'.ret \notin live]_vars

\* A full pool of at least three, reached by an alloc that followed frees.
C1_Witness ==
    /\ call.op = "alloc" /\ call.ret \in live
    /\ prev.op = "free"
    /\ Cardinality(live) = allocator.max_handles
    /\ allocator.max_handles >= 3

\* C2: dense[sparse[h]] = h for every allocated handle h, the first count
\* entries of dense are exactly the allocated handles, and count is the
\* number of allocated handles, between 0 and N.
C2_DenseSparse ==
    /\ \A h \in live : /\ allocator.sparse[h] \in Handles(allocator)
                        /\ allocator.dense[allocator.sparse[h]] = h
    /\ DensePrefix(allocator) = live
    /\ allocator.num_handles = Cardinality(live)
    /\ allocator.num_handles \in 0..allocator.max_handles

\* A free that moved the top handle into the hole of a handle below it.
C2_Witness ==
    /\ call.op = "free" /\ call.arg # invalid_handle_t
    /\ Cardinality(live) >= 2
    /\ \E i \in 0..(allocator.num_handles - 1) : allocator.dense[i] > i

\* C3: after N successful allocs with no free the pool is full, the next
\* alloc returns the sentinel and changes nothing in the allocator, and
\* after one held handle is then freed the next alloc returns a handle.
C3_Exhaustion ==
    /\ [](exh = 1 => allocator.num_handles = allocator.max_handles)
    /\ [](exh = 4 => call.ret \in Handles(allocator))
    /\ [][AllocStep /\ exh \in {1, 2}
             => call'.ret = invalid_handle_t /\ allocator' = allocator]_vars

\* Fill, failed alloc, free, alloc: the last alloc has returned.
C3_Witness ==
    /\ exh = 4 /\ call.op = "alloc" /\ call.ret # invalid_handle_t
    /\ prev.op = "free"
    /\ allocator.max_handles >= 2

\* C4: alloc called right after free(h) of a held handle h returns h.
C4_FreeThenAlloc ==
    (prev.op = "free" /\ prev.arg # invalid_handle_t /\ call.op = "alloc")
        => call.ret = prev.arg

\* alloc returned the handle just freed, which was not the top of _dense.
C4_Witness ==
    /\ prev.op = "free" /\ prev.arg # invalid_handle_t
    /\ call.op = "alloc" /\ call.ret = prev.arg
    /\ allocator.sparse[call.ret] = allocator.num_handles - 1
    /\ call.ret < allocator.num_handles - 1

\* C5: the free handles are a LIFO stack: alloc returns the most recently
\* freed handle that was not re-allocated since, and returns a handle never
\* issued before only when no freed handle remains; at capacity 255, after
\* a fill and the frees 0..254 in order, alloc returns 254.
C5_Lifo ==
    /\ [][AllocStep /\ call'.ret # invalid_handle_t
            => IF freed # <<>> THEN call'.ret = Head(freed)
                               ELSE call'.ret \notin issued]_vars
    /\ [](/\ allocator.max_handles = test_max_handles
          /\ call.op = "alloc" /\ prev.op = "free"
          => call.ret = test_max_handles - 1)

\* Three frees were popped in reverse order and then a new handle issued:
\* the caller holds four handles, the last a never-issued one.
C5_Witness ==
    /\ call.op = "alloc" /\ prev.op = "alloc"
    /\ freed = <<>>
    /\ call.ret = 3 /\ prev.ret = 0
    /\ allocator.dense[0] = 2 /\ allocator.dense[1] = 1
    /\ allocator.dense[2] = 0 /\ allocator.dense[3] = 3

\* C6: with capacity 4, four allocs return 0,1,2,3 in that order, after
\* free(1) the next alloc returns 1, and the one after it the sentinel.
C6_EndToEnd ==
    allocator.max_handles = 4 =>
        /\ scen \in 1..4 => call.ret = scen - 1
        /\ scen = 6 => call.ret = 1
        /\ scen = 7 => /\ call.ret = invalid_handle_t
                       /\ live = {0, 1, 2, 3}

\* The scenario has run to its end on a pool of capacity 4.
C6_Witness ==
    /\ allocator.max_handles = 4
    /\ scen = 7 /\ call.op = "alloc"

\* C7: after construction or reset() the count is 0 and, while no free is
\* called, the k-th alloc (k = 1..N) returns the handle k-1.
C7_FreshOrder ==
    /\ [](call.op \in {"new", "reset"} => allocator.num_handles = 0)
    /\ [][AllocStep /\ fresh \in Handles(allocator) => call'.ret = fresh]_vars

\* The first alloc after a reset of an allocator whose dense array had been
\* permuted (some handle was allocated at an index other than its value).
C7_Witness ==
    /\ prev.op = "reset" /\ call.op = "alloc"
    /\ fresh = 1 /\ call.ret = 0
    /\ \E h \in Handles(allocator) :
          /\ allocator.sparse[h] \notin IndeterminateBytes
          /\ allocator.sparse[h] # h

\* C8: free(sentinel) leaves count, dense and sparse unchanged in every
\* state, the empty pool included.
C8_FreeInvalidNoOp ==
    [][call'.op = "free" /\ call'.arg = invalid_handle_t
         => allocator' = allocator]_vars

\* free(sentinel) was called on an empty pool.
C8_Witness ==
    /\ call.op = "free" /\ call.arg = invalid_handle_t
    /\ allocator.num_handles = 0

(***************************************************************************)
(* Properties of the texture life cycle of the batched renderer.           *)
(***************************************************************************)
Range(q) == {q[i] : i \in DOMAIN q}

Min(a, b) == IF a < b THEN a ELSE b

\* The draw and delete calls of a log, in order.
Trace(log) ==
    SelectSeq(log, LAMBDA c : c.gl \in {"glDrawElements", "glDeleteTextures"})

\* The call c is an indexed draw with this texture.
Drawn(c, texture) == c.gl = "glDrawElements" /\ c.texture = texture

Deleted(texture) == [gl |-> "glDeleteTextures", texture |-> texture]

\* A step that is a call of create_texture() (it always takes a new name).
CreateStep == rcall'.op = "create_texture" /\ gl'.textures # gl.textures

\* A step that is a call of end_frame().
EndFrameStep == rcall'.op = "end_frame" /\ phase = "frame" /\ phase' = "idle"

\* C9: within a frame create_texture never returns a handle that texture()
\* recorded earlier in that frame, also when destroy_texture was called on
\* it in between; and the texture end_frame resolves for each draw that has
\* a bound texture is the texture the caller bound, still in existence.
C9_NoReuseInFrame ==
    /\ [][CreateStep /\ phase = "frame"
             => rcall'.ret \notin Range(render.bind_textures)]_vars
    /\ [](rcall.op = "end_frame"
             => \A i \in 1..Min(num_frac, Len(bound)) :
                   /\ Drawn(Trace(gl.log)[i], bound[i].name)
                   /\ bound[i].name \in Instances
                   /\ bound[i].alive)

\* In a frame, after texture(h) and destroy_texture(h), create_texture has
\* just returned.
C9_Witness ==
    /\ rcall.op = "create_texture" /\ phase = "frame"
    /\ \E i \in DOMAIN render.bind_textures :
          /\ render.bind_textures[i] \in Range(render.free_textures)
          /\ render.bind_textures[i] # rcall.ret

\* C10: destroy_texture(h) of a valid handle changes neither a texture slot
\* nor the allocator and deletes nothing; a queued handle keeps its texture
\* and stays allocated until end_frame, which issues its num_frac draws
\* first and then, for every queued handle, deletes the texture, zeroes the
\* slot and frees the handle, and leaves the queue empty.
C10_DeferredDestroy ==
    /\ [][rcall'.op = "destroy_texture" /\ render' # render
             => /\ render'.textures = render.textures
                /\ render'.handle_alloc = render.handle_alloc
                /\ gl'.textures = gl.textures
                /\ gl'.log = <<>>]_vars
    /\ [](\A h \in Range(render.free_textures) :
             /\ render.textures[h] \in gl.textures
             /\ h \in DensePrefix(render.handle_alloc))
    /\ [][EndFrameStep
             => /\ \A h \in Range(render.free_textures) :
                      /\ render.textures[h] \notin gl'.textures
                      /\ render'.textures[h] = 0
                      /\ h \notin DensePrefix(render'.handle_alloc)
                /\ Len(Trace(gl'.log)) = num_frac + Len(render.free_textures)
                /\ \A i \in 1..num_frac : Trace(gl'.log)[i].gl = "glDrawElements"
                /\ \A k \in DOMAIN render.free_textures :
                      Trace(gl'.log)[num_frac + k]
                          = Deleted(render.textures[render.free_textures[k]])
                /\ render'.free_textures = <<>>]_vars

\* end_frame has drawn with a texture destroyed during the frame and has
\* deleted it after the draw.
C10_Witness ==
    /\ rcall.op = "end_frame"
    /\ render.free_textures = <<>>
    /\ \E i, j \in DOMAIN gl.log :
          /\ i < j
          /\ gl.log[i].gl = "glDrawElements"
          /\ gl.log[j] = Deleted(gl.log[i].texture)
          /\ gl.log[j].texture \in Instances
          /\ gl.log[j].texture \notin gl.textures

(***************************************************************************)
(* Properties of the texture registry under both destruction policies and  *)
(* of the immediate renderer.                                              *)
(***************************************************************************)
\* A step that is a call of destroy_texture() with a handle the caller holds.
DestroyHeldStep == rcall'.op = "destroy_texture" /\ held' # held

\* A step that is a call of destroy_texture() with the invalid handle.
DestroyInvalidStep ==
    /\ rcall'.op = "destroy_texture" /\ held' = held
    /\ <<render, gl, rcall>> # <<render', gl', rcall'>>

\* Every handle of the pool is allocated.
PoolFull(r) == r.handle_alloc.num_handles = r.handle_alloc.max_handles

\* C11: under the immediate policy, when destroy_texture(h) returns for a
\* live handle h, the texture of h has been deleted on the device, slot h
\* holds 0 and h is free again, and the next create_texture returns h.
C11_ImmediateDestroy ==
    /\ [][backend = "gl2" /\ DestroyHeldStep
             => \A h \in held \ held' :
                   /\ render.textures[h] \in gl.textures
                   /\ render.textures[h] \notin gl'.textures
                   /\ gl'.log = <<Deleted(render.textures[h])>>
                   /\ render'.textures[h] = 0
                   /\ h \notin DensePrefix(render'.handle_alloc)]_vars
    /\ [][(/\ backend = "gl2" /\ rcall.op = "destroy_texture"
           /\ rcall.arg # invalid_handle_t /\ CreateStep)
             => rcall'.ret = rcall.arg]_vars

\* destroy_texture(h) has returned in a frame in which h was bound: the
\* texture is gone, the slot is zero and no handle is allocated.
C11_Witness ==
    /\ backend = "gl2" /\ phase = "frame"
    /\ rcall.op = "destroy_texture" /\ rcall.arg = 0
    /\ bound # <<>> /\ ~bound[Len(bound)].alive
    /\ render.textures[0] = 0
    /\ render.handle_alloc.num_handles = 0
    /\ gl.textures = {}

\* C12: under both policies create_texture called when every handle of the
\* pool is allocated returns the invalid handle.
C12_ExhaustedCreate ==
    [][CreateStep /\ PoolFull(render) => rcall'.ret = invalid_handle_t]_vars

\* create_texture has returned the invalid handle on a full pool of the
\* immediate renderer.
C12_Witness ==
    /\ backend = "gl2"
    /\ rcall.op = "create_texture" /\ rcall.ret = invalid_handle_t
    /\ PoolFull(render)
    /\ Cardinality(held) = MaxTexture

\* C13: under both policies destroy_texture(invalid handle) changes no
\* texture slot and no allocator state, deletes nothing, and under the
\* deferred policy queues nothing.
C13_DestroyInvalidNoOp ==
    [][DestroyInvalidStep
         => /\ render' = render
            /\ gl'.textures = gl.textures
            /\ gl'.log = <<>>]_vars

\* destroy_texture(invalid handle) has returned in the batched renderer
\* while a texture is held: nothing is queued.
C13_Witness ==
    /\ backend = "gl3"
    /\ rcall.op = "destroy_texture"
    /\ render.free_textures = <<>>
    /\ held # {}

\* The positions of the frame's sequence of requested texture names where
\* the name differs from the one requested before.
Transitions(b) == {i \in 2..Len(b) : b[i].name # b[i - 1].name}

\* C17: in a frame of the immediate renderer the glBindTexture calls issued
\* by texture() number at most one plus the positions where the requested
\* texture name differs from the previous one, whatever the number of draws.
C17_BindsBoundedByTransitions ==
    backend = "gl2" => binds <= 1 + Cardinality(Transitions(bound))

\* Two submissions with the same texture were drawn with one bind.
C17_Witness ==
    /\ backend = "gl2" /\ rcall.op = "draw"
    /\ Len(bound) = 2 /\ bound[1].name = bound[2].name
    /\ bound[1].name # 0
    /\ binds = 1

(***************************************************************************)
(* Properties of the device calls end_frame() issues per command.          *)
(***************************************************************************)
\* The position in a log of the draw call of command k (from 1).
DrawIndex(log, k) ==
    CHOOSE j \in DOMAIN log :
        /\ log[j].gl = "glDrawElements"
        /\ Cardinality({m \in 1..j : log[m].gl = "glDrawElements"}) = k

\* The device calls issued for command k: those after the draw call of the
\* command before it, up to its own draw call.
CommandCalls(log, k) ==
    {log[m] : m \in (IF k = 1 THEN 1 ELSE DrawIndex(log, k - 1) + 1)
                      .. DrawIndex(log, k)}

\* C18: when two consecutive commands of end_frame reference the same
\* texture, neither glActiveTexture nor glBindTexture is issued for the
\* second of them.
C18_NoRedundantRebind ==
    backend = "gl3" /\ rcall.op = "end_frame"
        => \A k \in 2..Min(num_frac, Len(bound)) :
              bound[k].name = bound[k - 1].name
                 => \A c \in CommandCalls(gl.log, k) :
                       c.gl \notin {"glActiveTexture", "glBindTexture"}

(***************************************************************************)
(* Properties of the state cache.                                          *)
(***************************************************************************)
\* The functor of the last cache call was invoked: its device call is in
\* the log of that call.
Invoked ==
    IF ucall.op = "bind_texture" THEN BindCalls(gl.log) = 1
    ELSE gl.log = <<[gl |-> "glActiveTexture", unit |-> ucall.expected]>>

\* The functor was not invoked: the call issued nothing.
NotInvoked == gl.log = <<>>

\* The cache cell the last cache call was made on.
Cell ==
    IF ucall.op = "bind_texture"
    THEN render.texture_state.unit[ucall.unit]
             [get_index_for_texture_target(ucall.target)]
    ELSE render.texture_state.activate

\* C14: update_state(state, expected, action, force) invokes the action
\* exactly when force is true or state differs from expected; afterwards
\* state equals expected in every case; with force false and state equal
\* to expected nothing is invoked and state is unchanged.
C14_UpdateState ==
    /\ [](ucall.op # "none"
             => /\ IF ucall.force \/ ucall.before # ucall.expected
                   THEN Invoked ELSE NotInvoked
                /\ Cell = ucall.expected)
    /\ [][(ucall'.op # "none" /\ ~ucall'.force
              /\ ucall'.before = ucall'.expected)
             => render' = render /\ gl' = Quiet(gl)]_vars

\* update_state was called with force on a state equal to expected, and
\* the action was invoked.
C14_Witness ==
    /\ ucall.op = "update_state" /\ ucall.force
    /\ ucall.before = ucall.expected
    /\ gl.log = <<[gl |-> "glActiveTexture", unit |-> ucall.expected]>>
    /\ render.texture_state.activate = ucall.expected

\* The positions of a sequence of applied values where the value differs
\* from the one applied before.
Changes(a) == {i \in 2..Len(a) : a[i] # a[i - 1]}

\* The applications counted: to the entry of unit 0 and GL_TEXTURE_2D of a
\* renderer as constructed, with nothing else called.
Counted == applied # Spoiled /\ applied # <<>>

\* C15 as stated: the same value applied N times invokes glBindTexture
\* exactly once, and N applications in which the value changes exactly
\* once invoke it exactly twice.
C15_OnceOrTwice ==
    Counted => /\ Changes(applied) = {} => binds = 1
               /\ Cardinality(Changes(applied)) = 1 => binds = 2

\* C15, amended: the entry as constructed caches the name 0, so the same
\* value applied N times invokes glBindTexture exactly once if the value is
\* not 0 and never if it is 0, and N applications in which the value
\* changes exactly once invoke it exactly twice if the first value is not
\* 0 and exactly once if it is 0.
C15_OnceOrTwiceFromZero ==
    Counted => /\ Changes(applied) = {}
                     => binds = IF applied[1] = 0 THEN 0 ELSE 1
               /\ Cardinality(Changes(applied)) = 1
                     => binds = IF applied[1] = 0 THEN 1 ELSE 2

\* Three applications, the value changing once, from a value other than 0:
\* two binds.
C15_Witness ==
    /\ Counted /\ Len(applied) = 3
    /\ applied[1] # 0 /\ applied[2] = applied[1] /\ applied[3] # applied[2]
    /\ binds = 2

\* C16: whatever activate_texture and bind_texture calls were made, the
\* cached active unit is the device's active unit and the cached name of
\* every unit and target is the texture bound to that unit and target on
\* the device.
C16_CacheMatchesDevice ==
    /\ render.texture_state.activate = gl.active
    /\ \A u \in Units, t \in CachedTargets :
          render.texture_state.unit[u][get_index_for_texture_target(t)]
              = gl.binding[u][t]

(***************************************************************************)
(* Properties of the draw list.                                            *)
(***************************************************************************)
\* A step that is a call of draw().
ListDrawStep ==
    dcall'.op = "draw" /\ Len(draw_list'.commands) = Len(draw_list.commands) + 1

\* C19: each draw(vertices, vertexCount, indices, indexCount) appends the
\* vertices unchanged, appends index[i] + V for every local index, V being
\* the length of the vertex sequence before the call, and appends one
\* command {count = indexCount, offset = length of the index sequence
\* before the call}.
C19_DrawAppends ==
    [][ListDrawStep
         => LET V == Len(draw_list.vertices)
                I == Len(draw_list.indices)
                vertex == dcall'.vertex
                index  == dcall'.index
            IN  /\ draw_list'.vertices = draw_list.vertices \o vertex
                /\ draw_list'.indices
                      = draw_list.indices
                          \o [i \in 1..Len(index) |-> index[i] + V]
                /\ draw_list'.commands
                      = Append(draw_list.commands,
                               [count |-> Len(index), offset |-> I])]_vars

\* Two calls with 3 vertices and 3 indices each: 6 vertices, the indices of
\* the second call shifted by 3, two commands of count 3.
C19_Witness ==
    /\ dcall.op = "draw" /\ dcall.index = <<0, 1, 2>>
    /\ draw_list.vertices = <<1, 2, 3, 1, 2, 3>>
    /\ draw_list.indices = <<0, 1, 2, 3, 4, 5>>
    /\ draw_list.commands = << [count |-> 3, offset |-> 0],
                               [count |-> 3, offset |-> 3] >>

\* C20: after any sequence of draw calls in a frame the command slices
\* [offset, offset + count), in command order, start at 0, each start where
\* the one before ends, and the last ends at the length of the index
\* sequence.
C20_SlicesPartition ==
    LET c == draw_list.commands
    IN  /\ \A i \in DOMAIN c : c[i].count >= 0
        /\ c # <<>> => c[1].offset = 0
        /\ \A i \in 1..(Len(c) - 1) : c[i].offset + c[i].count = c[i + 1].offset
        /\ IF c = <<>> THEN draw_list.indices = <<>>
           ELSE c[Len(c)].offset + c[Len(c)].count = Len(draw_list.indices)

\* Two draws of different vertex and index counts were submitted.
C20_Witness ==
    /\ Len(draw_list.commands) = 2
    /\ draw_list.commands[1].count = 2
    /\ draw_list.commands[2].count = 3
    /\ Len(draw_list.vertices) = 4
    /\ Len(draw_list.indices) = 5

\* The draw() call a was given only local indices smaller than its
\* vertexCount.
LocalIndicesValid(a) == \A i \in DOMAIN a.index : a.index[i] < Len(a.vertex)

\* The position in the vertex sequence of the first vertex of the k-th
\* draw() call of the frame (from 0).
RECURSIVE FirstVertex(_, _)
FirstVertex(s, k) ==
    IF k = 1 THEN 0 ELSE FirstVertex(s, k - 1) + Len(s[k - 1].vertex)

\* C21: if in every draw call of the frame each local index is smaller
\* than that call's vertexCount, then every value of the index sequence is
\* smaller than the length of the vertex sequence, and every index inside
\* a command's slice refers to a vertex appended by the same draw call.
\* This holds after every draw call, so also when end_frame uploads the
\* two sequences.
C21_IndicesValid ==
    (\A k \in DOMAIN submitted : LocalIndicesValid(submitted[k]))
        => /\ \A i \in DOMAIN draw_list.indices :
                 draw_list.indices[i] < Len(draw_list.vertices)
           /\ \A k \in DOMAIN draw_list.commands :
                 LET c == draw_list.commands[k]
                     first == FirstVertex(submitted, k)
                 IN  \A j \in 1..c.count :
                        /\ first <= draw_list.indices[c.offset + j]
                        /\ draw_list.indices[c.offset + j]
                              < first + Len(submitted[k].vertex)

\* Two draws with valid local indices, the second one not in order and
\* with fewer indices than the first draw has vertices.
C21_Witness ==
    /\ Len(submitted) = 2
    /\ submitted[1] = [vertex |-> <<1, 2, 3>>, index |-> <<0, 1, 2>>]
    /\ submitted[2] = [vertex |-> <<2, 1>>, index |-> <<1, 0>>]
    /\ draw_list.indices = <<0, 1, 2, 4, 3>>

(***************************************************************************)
(* Properties of the frames of the three renderers.                        *)
(***************************************************************************)
\* A step that is a call of begin_frame().
BeginFrameStep ==
    rcall'.op = "begin_frame" /\ phase = "idle" /\ phase' = "frame"

\* The vertex sequence, the index sequence and the uniforms the
\* submissions of the frame make up.
RECURSIVE Batch(_)
Batch(s) ==
    IF s = <<>> THEN [vertices |-> <<>>, indices |-> <<>>, uniforms |-> <<>>]
    ELSE LET front == Batch(SubSeq(s, 1, Len(s) - 1))
             last  == s[Len(s)]
         IN  [vertices |-> front.vertices \o last.vertex,
              indices  |-> front.indices
                             \o [i \in DOMAIN last.index |->
                                    last.index[i] + Len(front.vertices)],
              uniforms |-> Append(front.uniforms, last.uniform)]

\* C22: when begin_frame of the batched renderer returns, the vertex,
\* index, command, uniform and bound-texture sequences are all empty, so
\* the end_frame of frame k+1 uploads only what frame k+1 submitted and
\* draws nothing that was submitted in frame k: no draw reads a cell that
\* frame k wrote.
C22_FrameDataCleared ==
    /\ [][BeginFrameStep /\ backend = "gl3"
            => /\ render'.draw_list.vertices = <<>>
               /\ render'.draw_list.indices = <<>>
               /\ render'.draw_list.commands = <<>>
               /\ render'.uniforms = <<>>
               /\ render'.bind_textures = <<>>]_vars
    /\ [][EndFrameStep /\ backend = "gl3"
            => /\ gl'.array_buffer = Batch(submitted).vertices
               /\ gl'.element_buffer = Batch(submitted).indices
               /\ gl'.uniform_buffer.data = Batch(submitted).uniforms
               /\ \A i \in DOMAIN rcall'.arg : ~rcall'.arg[i].stale]_vars

\* The command draw() appends for the k-th submission of the frame.
CommandOf(s, k) ==
    [count  |-> Len(s[k].index),
     offset |-> Len(Batch(SubSeq(s, 1, k - 1)).indices)]

\* C23: for any sequence of submissions (uniform, texture, draw) within a
\* frame of the batched renderer, the uniform sequence and the command
\* list have the same length when end_frame is called, and the i-th
\* uniform is the one submitted with the i-th command.
C23_UniformPerCommand ==
    [][EndFrameStep /\ backend = "gl3"
         => /\ Len(render.uniforms) = Len(render.draw_list.commands)
            /\ Len(render.uniforms) = Len(submitted)
            /\ \A i \in DOMAIN submitted :
                  /\ render.uniforms[i] = submitted[i].uniform
                  /\ render.draw_list.commands[i] = CommandOf(submitted, i)]_vars

\* end_frame was called after two submissions with different arrays.
C23_Witness ==
    /\ backend = "gl3" /\ rcall.op = "end_frame"
    /\ Len(submitted) = 2
    /\ submitted[1].index = <<0, 1, 2>> /\ submitted[2].index = <<1, 0>>
    /\ render.uniforms = <<1, 2>>
    /\ render.draw_list.commands = << [count |-> 3, offset |-> 0],
                                      [count |-> 2, offset |-> 3] >>

\* The draw a submission asks for: the vertices its indices select, its
\* uniform and the texture bound for it.
LogicalDraw(a) ==
    [vertices |-> [k \in DOMAIN a.index |-> a.vertex[a.index[k] + 1]],
     uniform  |-> a.uniform,
     texture  |-> a.texture]

\* The draws the submissions of a frame ask for, in submission order.
LogicalDraws(s) == [i \in DOMAIN s |-> LogicalDraw(s[i])]

\* C24: end_frame of the batched renderer issues exactly one indexed draw
\* per command accumulated in the frame, as many draws as draw() was
\* called, in submission order, the i-th draw using the i-th command's
\* index slice, the i-th uniform range and the texture of the i-th bound
\* handle.
C24_OneDrawPerCommand ==
    [][EndFrameStep /\ backend = "gl3"
         => /\ Len(Draws(gl'.log)) = Len(render.draw_list.commands)
            /\ Len(Draws(gl'.log)) = Len(submitted)
            /\ \A c \in Range(gl'.log) : c.gl # "glDrawArrays"
            /\ Draws(gl'.log) = LogicalDraws(submitted)]_vars

\* The positions in a log of the calls named by kinds.
Positions(log, kinds) == {i \in DOMAIN log : log[i].gl \in kinds}

\* C25: end_frame of the batched renderer performs exactly three buffer
\* uploads, of the vertices, the indices and the uniforms, whatever the
\* number of draws submitted in the frame, and all three are issued before
\* the first draw call.
C25_ThreeUploads ==
    [][EndFrameStep /\ backend = "gl3"
         => LET uploads == SelectSeq(gl'.log, LAMBDA c : c.gl = "glBufferData")
            IN  /\ [i \in DOMAIN uploads |-> uploads[i].target]
                      = <<"GL_ARRAY_BUFFER", "GL_ELEMENT_ARRAY_BUFFER",
                          "GL_UNIFORM_BUFFER">>
                /\ \A i \in Positions(gl'.log, {"glBufferData"}) :
                      \A j \in Positions(gl'.log, {"glDrawElements",
                                                    "glDrawArrays"}) : i < j]_vars

\* end_frame has issued its uploads and then two draws.
C25_Witness ==
    /\ backend = "gl3" /\ rcall.op = "end_frame"
    /\ Len(submitted) = 2
    /\ Cardinality(Positions(gl.log, {"glBufferData"})) = 3
    /\ Cardinality(Positions(gl.log, {"glDrawElements"})) = 2

\* C26: in the batched renderer draw(), uniform() and texture() issue no
\* device call and no draw is issued before end_frame; in the immediate
\* and the per-draw-uniform renderer each draw() has issued exactly one
\* device draw when it returns and end_frame issues no draw.
C26_DeviceWorkTiming ==
    /\ [][backend = "gl3" /\ rcall'.op \in {"draw", "uniform", "texture"}
            => gl'.log = <<>>]_vars
    /\ [](backend = "gl3" /\ Draws(gl.log) # <<>> => rcall.op = "end_frame")
    /\ [](backend = "gl3" /\ phase = "frame" => drawn = <<>>)
    /\ [](backend \in {"gl2", "gl31"} /\ rcall.op = "draw"
            => Len(Draws(gl.log)) = 1 /\ Len(drawn) = Len(submitted))
    /\ [](backend \in {"gl2", "gl31"} /\ rcall.op = "end_frame"
            => Draws(gl.log) = <<>>)

\* The second draw() of a frame of the per-draw-uniform renderer has
\* returned.
C26_Witness ==
    /\ backend = "gl31" /\ rcall.op = "draw"
    /\ Len(submitted) = 2
    /\ Len(Draws(gl.log)) = 1
    /\ Len(drawn) = 2

\* C27: for the same submissions between begin_frame and end_frame the
\* three renderers issue the same sequence of draws, each draw being the
\* vertices the submitted indices select with the uniform and the texture
\* in effect for it: every renderer has issued just these draws when
\* end_frame returns.
C27_BackendsEquivalent ==
    rcall.op = "end_frame" => drawn = LogicalDraws(submitted)

\* C28: when cleanup returns no texture slot holds the name of a texture
\* that is not zero and not deleted, whether or not the texture had been
\* passed to destroy_texture, in each renderer.
C28_CleanupReleasesTextures ==
    rcall.op = "cleanup"
      => \A i \in DOMAIN render.textures :
            render.textures[i] = 0 \/ render.textures[i] \notin gl.textures

\* The device compiled the shader or linked the program.
Compiled(shader) == shader.id # 0 /\ shader.compiled

Linked(program) == program.id # 0 /\ program.linked

\* C29: setup() returns failure whenever the vertex shader compile, the
\* fragment shader compile or the program link fails, and success only
\* when all three succeeded, in the immediate renderer and in the batched
\* and per-draw-uniform renderers.
C29_SetupReportsFailure ==
    rcall.op = "setup"
      => rcall.ret = (/\ Compiled(rcall.arg.vertex)
                      /\ Compiled(rcall.arg.fragment)
                      /\ Linked(rcall.arg.program))

\* Both shaders compiled, the link failed, setup() returned false.
C29_Witness ==
    /\ rcall.op = "setup" /\ rcall.ret = FALSE /\ phase = "exit"
    /\ Compiled(rcall.arg.vertex) /\ Compiled(rcall.arg.fragment)
    /\ rcall.arg.program.id # 0 /\ ~rcall.arg.program.linked

\* C30: the offset end_frame of the batched renderer binds for every
\* command is a multiple of the alignment the device reports, for every
\* alignment the device may report.
C30_OffsetsAligned ==
    [][EndFrameStep /\ backend = "gl3"
         => LET ranges == SelectSeq(gl'.log,
                                     LAMBDA c : c.gl = "glBindBufferRange")
            IN  /\ \A i \in DOMAIN render.uniforms :
                      resolve_uniform(render, i, <<>>).offset % gl.alignment = 0
                /\ \A i \in DOMAIN ranges \cap DOMAIN render.uniforms :
                      ranges[i].offset % gl.alignment = 0]_vars

\* A handle is free in the allocator: it is not among the first
\* _num_handles entries of _dense.
FreeIn(a, handle) == handle \notin DensePrefix(a)

\* C31: in the per-draw-uniform renderer every handle passed to
\* destroy_texture has had its texture deleted and has been returned to the
\* pool when the frame's end_frame returns, the deferred queue is empty
\* then, and a caller that destroys the texture it holds before it creates
\* the next never finds the pool exhausted.
C31_Gl31DeferredRelease ==
    /\ [][rcall'.op = "end_frame" /\ phase = "frame" /\ backend = "gl31"
            => /\ render'.free_textures = <<>>
               /\ \A h \in Range(render.free_textures) :
                     /\ FreeIn(render'.handle_alloc, h)
                     /\ render.textures[h] \notin gl'.textures]_vars
    /\ [][rcall'.op = "create_texture" /\ backend = "gl31"
              /\ Cardinality(held) < MaxTexture
            => rcall'.ret # invalid_handle_t]_vars

\* C32: in the immediate renderer, for any interleaving of create_texture,
\* destroy_texture and texture, when texture(h) returns for a live handle h
\* the texture bound on the device to GL_TEXTURE_2D of unit 0 is the one
\* stored in slot h.
C32_TextureBoundAfterCall ==
    backend = "gl2" /\ rcall.op = "texture" /\ rcall.arg \in held
      => gl.binding[0]["GL_TEXTURE_2D"] = render.textures[rcall.arg]

\* C33: create_texture stores no texture name outside the slots
\* 0 .. max_texture - 1 of textures[] and creates no texture on the device
\* when every handle of the pool is allocated.
C33_CreateStaysInBounds ==
    [][rcall'.op = "create_texture"
         => /\ render'.stray = render.stray
            /\ PoolFull(render) => /\ gl'.textures = gl.textures
                                   /\ gl'.log = <<>>]_vars

\* C34: after setup, in every state reached by create_texture,
\* destroy_texture and end_frame on handles the caller holds, the slot of
\* every handle that is free in the allocator holds 0: only allocated
\* handles, those queued for deferred destruction included, hold a name.
C34_FreeSlotsAreZero ==
    \A h \in DOMAIN render.textures :
       /\ FreeIn(render.handle_alloc, h) => render.textures[h] = 0
       /\ render.textures[h] # 0
             => h \in held \/ (backend # "gl2"
                                 /\ h \in Range(render.free_textures))

\* A texture was created, bound and destroyed, and its handle is free
\* again with its slot zeroed: at once in the immediate renderer, after
\* end_frame in the batched one.
C34_Witness ==
    /\ \/ backend = "gl2" /\ rcall.op = "destroy_texture"
       \/ backend = "gl3" /\ rcall.op = "end_frame"
    /\ \E i \in DOMAIN gl.log : gl.log[i].gl = "glDeleteTextures"
    /\ FreeIn(render.handle_alloc, 0)
    /\ render.textures[0] = 0

\* The glBindBufferRange calls of a log, in order.
Ranges(log) == SelectSeq(log, LAMBDA c : c.gl = "glBindBufferRange")

\* C35: in end_frame of the batched renderer the uniform range of the i-th
\* command (i from 0) is offset i * 256, size 256, which is the range
\* passed to glBindBufferRange for it; every range lies inside the
\* uploaded uniform buffer, whose size is 256 times the number of
\* uniforms; the ranges of two commands do not overlap; and the block at
\* the start of range i is the i-th uniform submitted in the frame.
C35_UniformRanges ==
    [][EndFrameStep /\ backend = "gl3"
         => LET n == Len(submitted)
                range(i) == resolve_uniform(render, i, rcall'.arg)
                buffer == gl'.uniform_buffer
            IN  /\ buffer.size = 256 * n
                /\ \A i \in 1..n :
                      /\ range(i) = [offset |-> (i - 1) * 256, size |-> 256]
                      /\ range(i).offset + range(i).size <= buffer.size
                      /\ Fetch(buffer.data,
                               range(i).offset \div buffer.stride + 1)
                            = submitted[i].uniform
                      /\ i <= num_frac
                            => /\ Ranges(gl'.log)[i].offset = range(i).offset
                               /\ Ranges(gl'.log)[i].size = range(i).size
                      /\ \A j \in 1..n :
                            j < i => range(j).offset + range(j).size
                                       <= range(i).offset]_vars

\* end_frame has bound the second block of a frame of two submissions.
C35_Witness ==
    /\ backend = "gl3" /\ rcall.op = "end_frame"
    /\ Len(submitted) = 2 /\ num_frac = 2
    /\ gl.uniform_buffer.size = 512
    /\ Len(Ranges(gl.log)) = 2
    /\ Ranges(gl.log)[2].offset = 256 /\ ~Ranges(gl.log)[2].error
    /\ Draws(gl.log)[2].uniform = submitted[2].uniform

\* A step that is a call of free() on a handle the caller holds.
FreeHeldStep == call'.op = "free" /\ call'.arg \in live /\ live' # live

\* C36: when free is only called on handles that are allocated, the
\* assertion of free holds (the index cached for the handle is not the
\* sentinel), the count never wraps below 0 and stays within 0 .. N, and
\* every read and store of _dense and _sparse in alloc and free uses a
\* subscript smaller than N.
C36_FreeAssertionAndBounds ==
    /\ [][FreeHeldStep
            => LET f == handle_alloc_free_accesses(allocator, call'.arg)
               IN  /\ f.assertion
                   /\ ~f.wraps
                   /\ allocator'.num_handles = allocator.num_handles - 1
                   /\ f.dense \subseteq Handles(allocator)
                   /\ f.sparse \subseteq Handles(allocator)]_vars
    /\ [][AllocStep /\ call'.ret # invalid_handle_t
            => LET f == handle_alloc_alloc_accesses(allocator)
               IN  /\ f.dense \subseteq Handles(allocator)
                   /\ f.sparse \subseteq Handles(allocator)]_vars
    /\ [](allocator.num_handles \in 0..allocator.max_handles)

\* free() was called on a held handle that was not the last allocated, in
\* a pool of 255 handles that was full.
C36_Witness ==
    /\ allocator.max_handles = test_max_handles
    /\ call.op = "free" /\ call.arg = 0
    /\ allocator.num_handles = test_max_handles - 1
    /\ allocator.dense[0] = test_max_handles - 1
    /\ allocator.sparse[test_max_handles - 1] = 0

\* The queries begun that the loop has not yet seen available.
Outstanding(l) ==
    {q \in DOMAIN l.queries :
        l.queries[q].state # "new" /\ ~l.queries[q].seen}

\* C37: in the frame loop of main() a timer query is begun only when no
\* query is outstanding; each begun query is ended exactly once, after the
\* frame that began it was rendered and before its result is read; the
\* result is read only after the device reported it available; and the
\* loop does not wait for the result: every iteration reaches the buffer
\* swap, whether or not the result is available.
C37_TimerQueryProtocol ==
    /\ [][loop.pc = "top" /\ Len(loop'.queries) > Len(loop.queries)
            => Outstanding(loop) = {}]_vars
    /\ [](/\ ~loop.error
          /\ Cardinality(Outstanding(loop)) <= 1
          /\ \A q \in DOMAIN loop.queries :
                /\ loop.queries[q].ends <= 1
                /\ loop.queries[q].ends = 1 => loop.queries[q].frames = 1
                /\ loop.queries[q].read =>
                      loop.queries[q].ends = 1 /\ loop.queries[q].seen
                /\ ~loop.queries[q].early
                /\ loop.pc \in {"poll", "swap"} /\ loop.queries[q].state # "new"
                      => loop.queries[q].ends = 1)
    /\ [](loop.pc = "top" => <>(loop.pc = "swap"))

\* An iteration reached the buffer swap with its query ended and the
\* result not available, after an earlier query was read.
C37_Witness ==
    /\ loop.pc = "swap"
    /\ Len(loop.queries) = 2
    /\ loop.queries[1].read
    /\ loop.queries[2].state = "ended"
    /\ loop.query_issued /\ loop.wait_gpu

====
